---- MODULE Spec2Model ----
(***************************************************************************)
(* Adaptive routing and resilience engine of the lumni gateway:            *)
(*   - CircuitBreaker            (app/core/circuit_breaker.py)             *)
(*   - retry_with_backoff / retry_with_custom_backoff (app/core/retry.py)  *)
(*   - LiteLLMClient.chat        (app/core/litellm_client.py)              *)
(*   - ProviderHealthChecker     (app/core/provider_health_checker.py)     *)
(*   - BenchmarkSelector.select_model (app/models/benchmark_selector.py)   *)
(*   - classify_task              (app/models/task_classifier.py)          *)
(*   - chat_completion and its dependencies (app/api/v1/routes.py)         *)
(* Each component has its own specification over the shared variables; the *)
(* variables of the other components stay at their initial values.         *)
(***************************************************************************)
EXTENDS Integers, Sequences, FiniteSets, TLC

VARIABLES
    now,        \* the wall clock read by datetime.now(), in seconds
    callers,    \* the tasks that may call CircuitBreaker.call
    cfg,        \* CircuitBreakerConfig of the breaker
    stats,      \* CircuitBreakerStats of the breaker
    lock,       \* holder of CircuitBreaker._lock, 0 when free
    pc,         \* position of each task inside CircuitBreaker.call
    result,     \* outcome of each task's last CircuitBreaker.call
    invoked,    \* number of invocations of the protected function
    calls,      \* number of CircuitBreaker.call started
    log,        \* the outcomes recorded so far, "s" or "f", oldest first
    trials,     \* calls let through to the function since the breaker last
                \* became HALF_OPEN, 0 when it is not HALF_OPEN
    admitted,   \* the state in which each task's last call was let through
                \* to the function, "none" when it was not
    rt,         \* state of one run of the retry executor
    chat,       \* state of LiteLLMClient.chat (retry around the breaker)
    hc,         \* ProviderHealthChecker: ttl, cache, last operation
    sel,        \* BenchmarkSelector.select_model: request and result
    app,        \* the API process: the clients built for the requests
    cls,        \* classify_task: the analysed request and its classification
    obs         \* the last get_state() / is_open() of the breaker and its answer

vars == <<now, callers, cfg, stats, lock, pc, result, invoked, calls, log,
          trials, admitted, rt, chat, hc, sel, app, cls, obs>>

breakerVars ==
    <<callers, cfg, stats, lock, pc, result, invoked, calls, log, trials,
      admitted>>

(***************************************************************************)
(* Bounds of the model.                                                    *)
(***************************************************************************)
NumCallers == 2
MaxCalls == 3
MaxTime == 3
MaxThreshold == 2
MaxTimeout == 2

(***************************************************************************)
(* Circuit breaker                                                         *)
(***************************************************************************)
CLOSED == "closed"
OPEN == "open"
HALF_OPEN == "half_open"

\* Optional[datetime] = None
None == -1

Tasks == 1 .. NumCallers

CircuitBreakerConfig ==
    [failure_threshold : 1 .. MaxThreshold,
     success_threshold : 1 .. MaxThreshold,
     timeout : 1 .. MaxTimeout]

CircuitBreakerStats ==
    [failures |-> 0, successes |-> 0, last_failure_time |-> None,
     state |-> CLOSED, opened_at |-> None]

\* a breaker that forgets the cooldown: OPEN -> HALF_OPEN on any call
CheckStateTransitionNoCooldown(st, c, t) ==
    IF st.state = OPEN /\ st.opened_at # None
    THEN [st EXCEPT !.state = HALF_OPEN, !.successes = 0]
    ELSE st

\* a breaker that leaves OPEN one second before the timeout has elapsed
CheckStateTransitionEarly(st, c, t) ==
    IF st.state = OPEN /\ st.opened_at # None
       /\ t - st.opened_at >= c.timeout - 1
    THEN [st EXCEPT !.state = HALF_OPEN, !.successes = 0]
    ELSE st

\* _check_state_transition: OPEN -> HALF_OPEN once the timeout has elapsed
CheckStateTransition(st, c, t) ==
    IF st.state = OPEN /\ st.opened_at # None /\ t - st.opened_at >= c.timeout
    THEN [st EXCEPT !.state = HALF_OPEN, !.successes = 0]
    ELSE st

\* a breaker whose success in CLOSED leaves the failure counter alone
RecordSuccessNoReset(st, c) ==
    IF st.state = HALF_OPEN
    THEN IF st.successes + 1 >= c.success_threshold
         THEN [st EXCEPT !.state = CLOSED, !.failures = 0, !.successes = 0]
         ELSE [st EXCEPT !.successes = st.successes + 1]
    ELSE st

\* a breaker that closes without resetting the failure counter
RecordSuccessKeepsFailures(st, c) ==
    IF st.state = HALF_OPEN
    THEN IF st.successes + 1 >= c.success_threshold
         THEN [st EXCEPT !.state = CLOSED, !.successes = 0]
         ELSE [st EXCEPT !.successes = st.successes + 1]
    ELSE IF st.state = CLOSED
         THEN [st EXCEPT !.failures = 0]
         ELSE st

\* a breaker that counts a success in OPEN as it does in HALF_OPEN
RecordSuccessWhileOpen(st, c) ==
    IF st.state \in {HALF_OPEN, OPEN}
    THEN IF st.successes + 1 >= c.success_threshold
         THEN [st EXCEPT !.state = CLOSED, !.failures = 0, !.successes = 0]
         ELSE [st EXCEPT !.successes = st.successes + 1]
    ELSE IF st.state = CLOSED
         THEN [st EXCEPT !.failures = 0]
         ELSE st

\* _record_success, the body under the lock
RecordSuccess(st, c) ==
    IF st.state = HALF_OPEN
    THEN IF st.successes + 1 >= c.success_threshold
         THEN [st EXCEPT !.state = CLOSED, !.failures = 0, !.successes = 0]
         ELSE [st EXCEPT !.successes = st.successes + 1]
    ELSE IF st.state = CLOSED
         THEN [st EXCEPT !.failures = 0]
         ELSE st

\* a breaker that opens one failure late (> instead of >=)
RecordFailureLate(st, c, t) ==
    LET counted == [st EXCEPT !.failures = st.failures + 1,
                              !.last_failure_time = t]
    IN  IF counted.state = HALF_OPEN
        THEN [counted EXCEPT !.state = OPEN, !.opened_at = t, !.successes = 0]
        ELSE IF counted.state = CLOSED
                /\ counted.failures > c.failure_threshold
             THEN [counted EXCEPT !.state = OPEN, !.opened_at = t]
             ELSE counted

\* a breaker whose half-open failure reopens without a new opened_at
RecordFailureKeepsOpenedAt(st, c, t) ==
    LET counted == [st EXCEPT !.failures = st.failures + 1,
                              !.last_failure_time = t]
    IN  IF counted.state = HALF_OPEN
        THEN [counted EXCEPT !.state = OPEN, !.successes = 0]
        ELSE IF counted.state = CLOSED
                /\ counted.failures >= c.failure_threshold
             THEN [counted EXCEPT !.state = OPEN, !.opened_at = t]
             ELSE counted

\* a breaker that opens without noting when
RecordFailureNoOpenedAt(st, c, t) ==
    LET counted == [st EXCEPT !.failures = st.failures + 1,
                              !.last_failure_time = t]
    IN  IF counted.state = HALF_OPEN
        THEN [counted EXCEPT !.state = OPEN, !.successes = 0]
        ELSE IF counted.state = CLOSED
                /\ counted.failures >= c.failure_threshold
             THEN [counted EXCEPT !.state = OPEN]
             ELSE counted

\* _record_failure, the body under the lock
RecordFailure(st, c, t) ==
    LET counted == [st EXCEPT !.failures = st.failures + 1,
                              !.last_failure_time = t]
    IN  IF counted.state = HALF_OPEN
        THEN [counted EXCEPT !.state = OPEN, !.opened_at = t, !.successes = 0]
        ELSE IF counted.state = CLOSED
                /\ counted.failures >= c.failure_threshold
             THEN [counted EXCEPT !.state = OPEN, !.opened_at = t]
             ELSE counted

\* get_state
get_state == stats.state

\* is_open
is_open == stats.state = OPEN

\* LiteLLMClient.__init__: CircuitBreakerConfig(failure_threshold=5,
\* timeout=60), success_threshold left at its default
ChatFailureThreshold == 5
ChatSuccessThreshold == 2
ChatTimeout == 60
ChatBreakerConfig ==
    [failure_threshold |-> ChatFailureThreshold,
     success_threshold |-> ChatSuccessThreshold,
     timeout |-> ChatTimeout]

\* the chat() calls of one run, and the attempts tenacity gives each of them
MaxChats == 3
ChatMaxAttempts == 3

\* how many call() a run starts: bounded directly, or through the chat()
\* calls that drive the breaker
CallBudget ==
    IF chat.pc = "off" THEN MaxCalls ELSE MaxChats * ChatMaxAttempts

BreakerInit(active) ==
    /\ callers = active
    /\ cfg \in CircuitBreakerConfig
    /\ stats = CircuitBreakerStats
    /\ lock = 0
    /\ pc = [c \in Tasks |-> "idle"]
    /\ result = [c \in Tasks |-> "none"]
    /\ invoked = 0
    /\ calls = 0
    /\ log = <<>>
    /\ trials = 0
    /\ admitted = [c \in Tasks |-> "none"]

\* the trial calls of the HALF_OPEN episode after the state check of a call:
\* the call is let through unless the breaker stays OPEN, and it is the first
\* of its episode when the check has just left OPEN
TrialsAfterCheck(before, after, n) ==
    IF after.state # HALF_OPEN THEN 0
    ELSE IF before.state = OPEN THEN 1 ELSE n + 1

\* the trial calls of the episode after an outcome is recorded: the episode
\* is over when the breaker has left HALF_OPEN
TrialsAfterRecord(after, n) == IF after.state = HALF_OPEN THEN n ELSE 0

\* call, line 56: a task enters `async with self._lock`
CallAcquireStep(c) ==
    /\ pc[c] = "idle"
    /\ lock = 0
    /\ calls < CallBudget
    /\ lock' = c
    /\ calls' = calls + 1
    /\ pc' = [pc EXCEPT ![c] = "check"]
    /\ result' = [result EXCEPT ![c] = "none"]
    /\ admitted' = [admitted EXCEPT ![c] = "none"]
    /\ UNCHANGED <<callers, cfg, stats, invoked, log, trials>>

\* a breaker whose _check_state_transition enters `async with self._lock`
\* itself, while call holds the lock
CallCheckStepReacquiring(c) ==
    /\ pc[c] = "check"
    /\ lock = 0
    /\ LET st == CheckStateTransition(stats, cfg, now)
       IN  /\ stats' = st
           /\ trials' = TrialsAfterCheck(stats, st, trials)
           /\ admitted' = [admitted EXCEPT
                             ![c] = IF st.state = OPEN THEN "none" ELSE st.state]
           /\ IF st.state = OPEN
              THEN /\ result' = [result EXCEPT ![c] = "CircuitBreakerOpenError"]
                   /\ pc' = [pc EXCEPT ![c] = "idle"]
                   /\ invoked' = invoked
              ELSE /\ result' = result
                   /\ pc' = [pc EXCEPT ![c] = "in_fn"]
                   /\ invoked' = invoked + 1
    /\ lock' = 0
    /\ UNCHANGED <<callers, cfg, calls, log>>

\* a breaker that invokes the function inside `async with self._lock`
CallCheckStepUnderLock(c) ==
    /\ pc[c] = "check"
    /\ lock = c
    /\ LET st == CheckStateTransition(stats, cfg, now)
       IN  /\ stats' = st
           /\ trials' = TrialsAfterCheck(stats, st, trials)
           /\ admitted' = [admitted EXCEPT
                             ![c] = IF st.state = OPEN THEN "none" ELSE st.state]
           /\ IF st.state = OPEN
              THEN /\ result' = [result EXCEPT ![c] = "CircuitBreakerOpenError"]
                   /\ pc' = [pc EXCEPT ![c] = "idle"]
                   /\ invoked' = invoked
                   /\ lock' = 0
              ELSE /\ result' = result
                   /\ pc' = [pc EXCEPT ![c] = "in_fn"]
                   /\ invoked' = invoked + 1
                   /\ lock' = c
    /\ UNCHANGED <<callers, cfg, calls, log>>

\* call, lines 57-69: the state check under the lock; the lock is released
\* and either CircuitBreakerOpenError is raised or the function is invoked
CallCheckStep(c) ==
    /\ pc[c] = "check"
    /\ lock = c
    /\ LET st == CheckStateTransition(stats, cfg, now)
       IN  /\ stats' = st
           /\ trials' = TrialsAfterCheck(stats, st, trials)
           /\ admitted' = [admitted EXCEPT
                             ![c] = IF st.state = OPEN THEN "none" ELSE st.state]
           /\ IF st.state = OPEN
              THEN /\ result' = [result EXCEPT ![c] = "CircuitBreakerOpenError"]
                   /\ pc' = [pc EXCEPT ![c] = "idle"]
                   /\ invoked' = invoked
              ELSE /\ result' = result
                   /\ pc' = [pc EXCEPT ![c] = "in_fn"]
                   /\ invoked' = invoked + 1
    /\ lock' = 0
    /\ UNCHANGED <<callers, cfg, calls, log>>

\* call, lines 69-70: the function returned; _record_success takes the lock
FnReturnStep(c) ==
    /\ pc[c] = "in_fn"
    /\ lock = 0
    /\ lock' = c
    /\ pc' = [pc EXCEPT ![c] = "record_success"]
    /\ UNCHANGED <<callers, cfg, stats, result, invoked, calls, log, trials,
                   admitted>>

\* call, lines 72-73: the function raised an expected_exception;
\* _record_failure takes the lock
FnRaiseStep(c) ==
    /\ pc[c] = "in_fn"
    /\ lock = 0
    /\ lock' = c
    /\ pc' = [pc EXCEPT ![c] = "record_failure"]
    /\ UNCHANGED <<callers, cfg, stats, result, invoked, calls, log, trials,
                   admitted>>

\* call, line 72: the function raised something that is no expected_exception
\* (with the default Exception: a BaseException such as CancelledError);
\* nothing is recorded and the exception propagates
FnRaiseOtherStep(c) ==
    /\ pc[c] = "in_fn"
    /\ pc' = [pc EXCEPT ![c] = "idle"]
    /\ result' = [result EXCEPT ![c] = "other"]
    /\ UNCHANGED <<callers, cfg, stats, lock, invoked, calls, log, trials,
                   admitted>>

\* a breaker that accounts a success against the state in which the call
\* was let through: a call admitted while CLOSED only resets the failures
RecordSuccessStepAsAdmitted(c) ==
    /\ pc[c] = "record_success"
    /\ lock = c
    /\ stats' = IF admitted[c] = CLOSED
                THEN [stats EXCEPT !.failures = 0]
                ELSE RecordSuccess(stats, cfg)
    /\ trials' = IF admitted[c] = CLOSED
                 THEN trials
                 ELSE TrialsAfterRecord(RecordSuccess(stats, cfg), trials)
    /\ admitted' = admitted
    /\ log' = Append(log, "s")
    /\ lock' = 0
    /\ pc' = [pc EXCEPT ![c] = "idle"]
    /\ result' = [result EXCEPT ![c] = "ok"]
    /\ UNCHANGED <<callers, cfg, invoked, calls>>

\* _record_success, lines 92-102, then `return result`
RecordSuccessStep(c) ==
    /\ pc[c] = "record_success"
    /\ lock = c
    /\ stats' = RecordSuccess(stats, cfg)
    /\ trials' = TrialsAfterRecord(RecordSuccess(stats, cfg), trials)
    /\ admitted' = admitted
    /\ log' = Append(log, "s")
    /\ lock' = 0
    /\ pc' = [pc EXCEPT ![c] = "idle"]
    /\ result' = [result EXCEPT ![c] = "ok"]
    /\ UNCHANGED <<callers, cfg, invoked, calls>>

\* _record_failure, lines 106-125, then `raise`
RecordFailureStep(c) ==
    /\ pc[c] = "record_failure"
    /\ lock = c
    /\ stats' = RecordFailure(stats, cfg, now)
    /\ trials' = TrialsAfterRecord(RecordFailure(stats, cfg, now), trials)
    /\ admitted' = admitted
    /\ log' = Append(log, "f")
    /\ lock' = 0
    /\ pc' = [pc EXCEPT ![c] = "idle"]
    /\ result' = [result EXCEPT ![c] = "error"]
    /\ UNCHANGED <<callers, cfg, invoked, calls>>

\* the clock advances
TickStep ==
    /\ now < MaxTime
    /\ now' = now + 1

\* the components that are not running stay as constructed
RtOff == [pc |-> "off"]
ChatOff == [pc |-> "off"]
HcOff == [pc |-> "off"]
SelOff == [pc |-> "off"]
AppOff == [pc |-> "off"]
ClsOff == [pc |-> "off"]
ObsOff == [op |-> "off"]

CallAcquire(c) == CallAcquireStep(c) /\ UNCHANGED <<now, rt, chat, hc, sel, app, cls, obs>>
CallCheck(c) == CallCheckStep(c) /\ UNCHANGED <<now, rt, chat, hc, sel, app, cls, obs>>
FnReturn(c) == FnReturnStep(c) /\ UNCHANGED <<now, rt, chat, hc, sel, app, cls, obs>>
FnRaise(c) == FnRaiseStep(c) /\ UNCHANGED <<now, rt, chat, hc, sel, app, cls, obs>>
FnRaiseOther(c) == FnRaiseOtherStep(c) /\ UNCHANGED <<now, rt, chat, hc, sel, app, cls, obs>>
RecordSuccessDone(c) == RecordSuccessStep(c) /\ UNCHANGED <<now, rt, chat, hc, sel, app, cls, obs>>
RecordFailureDone(c) == RecordFailureStep(c) /\ UNCHANGED <<now, rt, chat, hc, sel, app, cls, obs>>
Tick == TickStep /\ UNCHANGED <<breakerVars, rt, chat, hc, sel, app, cls, obs>>

Init ==
    /\ now = 0
    /\ BreakerInit(Tasks)
    /\ rt = RtOff /\ chat = ChatOff /\ hc = HcOff /\ sel = SelOff /\ app = AppOff /\ cls = ClsOff
    /\ obs = ObsOff

\* one task only: the calls on the breaker are sequential
InitSeq ==
    /\ now = 0
    /\ BreakerInit({1})
    /\ rt = RtOff /\ chat = ChatOff /\ hc = HcOff /\ sel = SelOff /\ app = AppOff /\ cls = ClsOff
    /\ obs = ObsOff

Next ==
    \/ \E c \in callers :
          \/ CallAcquire(c)
          \/ CallCheck(c)
          \/ FnReturn(c)
          \/ FnRaise(c)
          \/ FnRaiseOther(c)
          \/ RecordSuccessDone(c)
          \/ RecordFailureDone(c)
    \/ Tick

\* concurrent callers of one breaker
Spec == Init /\ [][Next]_vars

\* sequential calls on one breaker
SpecSeq == InitSeq /\ [][Next]_vars

(***************************************************************************)
(* Retry executor                                                          *)
(***************************************************************************)
MaxAttempts == 3

Min(a, b) == IF a < b THEN a ELSE b
Max(a, b) == IF a > b THEN a ELSE b

\* the exception classes an invocation may raise, with their base classes
ExceptionTypes == {"ValueError", "KeyError", "CancelledError"}
\* the bases in the class statement of an exception class: the classes of
\* app/utils/exceptions.py and of the circuit breaker, the builtin
\* exceptions and those of asyncio
ExceptionBases(t) ==
    CASE t = "BaseException" -> {}
      [] t \in {
               "BaseExceptionGroup", "CancelledError",
               "Exception", "GeneratorExit", "KeyboardInterrupt",
               "SystemExit"}
           -> {"BaseException"}
      [] t \in {
               "FloatingPointError", "OverflowError",
               "ZeroDivisionError"}
           -> {"ArithmeticError"}
      [] t \in {
               "ExceptionGroup"}
           -> {"BaseExceptionGroup", "Exception"}
      [] t \in {
               "BrokenPipeError", "ConnectionAbortedError",
               "ConnectionRefusedError", "ConnectionResetError"}
           -> {"ConnectionError"}
      [] t \in {
               "IncompleteReadError"}
           -> {"EOFError"}
      [] t \in {
               "ModuleNotFoundError"}
           -> {"ImportError"}
      [] t \in {
               "TabError"}
           -> {"IndentationError"}
      [] t \in {
               "IndexError", "KeyError"}
           -> {"LookupError"}
      [] t \in {
               "AuthenticationError", "CacheError",
               "ConfigurationError", "DatabaseError",
               "ProviderError", "ValidationError"}
           -> {"LumniError"}
      [] t \in {
               "UnboundLocalError"}
           -> {"NameError"}
      [] t \in {
               "BlockingIOError", "ChildProcessError",
               "ConnectionError", "FileExistsError",
               "FileNotFoundError", "InterruptedError",
               "IsADirectoryError", "NotADirectoryError",
               "PermissionError", "ProcessLookupError",
               "TimeoutError"}
           -> {"OSError"}
      [] t \in {
               "ModelNotFoundError", "RateLimitError"}
           -> {"ProviderError"}
      [] t \in {
               "BrokenBarrierError", "NotImplementedError",
               "RecursionError", "SendfileNotAvailableError"}
           -> {"RuntimeError"}
      [] t \in {
               "IndentationError"}
           -> {"SyntaxError"}
      [] t \in {
               "UnicodeDecodeError", "UnicodeEncodeError",
               "UnicodeTranslateError"}
           -> {"UnicodeError"}
      [] t \in {
               "UnicodeError"}
           -> {"ValueError"}
      [] t \in {
               "BytesWarning", "DeprecationWarning",
               "EncodingWarning", "FutureWarning",
               "ImportWarning", "PendingDeprecationWarning",
               "ResourceWarning", "RuntimeWarning",
               "SyntaxWarning", "UnicodeWarning", "UserWarning"}
           -> {"Warning"}
      \* the direct subclasses of Exception: LumniError,
      \* CircuitBreakerOpenError, TypeError, RuntimeError, OSError, ...
      [] OTHER -> {"Exception"}

RECURSIVE Superclasses(_)
\* the classes of t.__mro__, object left out
Superclasses(t) == {t} \cup UNION {Superclasses(b) : b \in ExceptionBases(t)}
\* isinstance(e, classes)
IsInstance(t, classes) == Superclasses(t) \cap classes # {}

\* the values a function may return
Values == {"success", "other success"}

\* tenacity.stop_after_attempt(max_attempts)
stop_after_attempt(max_attempt_number, attempt_number) ==
    attempt_number >= max_attempt_number

\* tenacity.retry_if_exception_type(retry_on)
retry_if_exception_type(retry_on, t) == IsInstance(t, retry_on)

\* a wait whose exponent is the number of the failed attempt
wait_exponential_from_base(multiplier, max, exp_base, attempt_number) ==
    Max(0, Min(multiplier * exp_base ^ attempt_number, max))

\* tenacity.wait_exponential(multiplier, max, exp_base), min = 0
wait_exponential(multiplier, max, exp_base, attempt_number) ==
    Max(0, Min(multiplier * exp_base ^ (attempt_number - 1), max))

\* a decorator configured without reraise: exhaustion raises RetryError
retry_with_backoff_wrapping(r, exc) ==
    IF ~retry_if_exception_type(r.retry_on, exc.type)
    THEN [do |-> "raise", exc |-> exc, delay |-> 0]
    ELSE IF stop_after_attempt(r.max_attempts, r.attempt)
         THEN [do |-> "raise", exc |-> [type |-> "RetryError", id |-> 0],
               delay |-> 0]
         ELSE [do |-> "sleep", exc |-> exc,
               delay |-> wait_exponential(r.initial_delay, r.max_delay,
                                          r.exponential_base, r.attempt)]

\* a decorator that stops one attempt early
retry_with_backoff_early(r, exc) ==
    IF ~retry_if_exception_type(r.retry_on, exc.type)
    THEN [do |-> "raise", exc |-> exc, delay |-> 0]
    ELSE IF stop_after_attempt(r.max_attempts - 1, r.attempt)
         THEN [do |-> "raise", exc |-> exc, delay |-> 0]
         ELSE [do |-> "sleep", exc |-> exc,
               delay |-> wait_exponential(r.initial_delay, r.max_delay,
                                          r.exponential_base, r.attempt)]

\* retry_with_backoff: what the tenacity decorator does after attempt
\* r.attempt raised exc (retry=retry_if_exception_type(retry_on),
\* stop=stop_after_attempt(max_attempts), wait=wait_exponential(...),
\* reraise=True)
retry_with_backoff(r, exc) ==
    IF ~retry_if_exception_type(r.retry_on, exc.type)
    THEN [do |-> "raise", exc |-> exc, delay |-> 0]
    ELSE IF stop_after_attempt(r.max_attempts, r.attempt)
         THEN [do |-> "raise", exc |-> exc, delay |-> 0]
         ELSE [do |-> "sleep", exc |-> exc,
               delay |-> wait_exponential(r.initial_delay, r.max_delay,
                                          r.exponential_base, r.attempt)]

\* a loop whose handler is `except BaseException`
retry_with_custom_backoff_catching_all(r, exc) ==
    IF r.attempt - 1 < r.max_attempts - 1
    THEN [do |-> "sleep", exc |-> exc,
          delay |-> Min(r.initial_delay
                          * r.exponential_base ^ (r.attempt - 1),
                        r.max_delay)]
    ELSE [do |-> "raise", exc |-> exc, delay |-> 0]

\* a loop whose delay is not capped by max_delay
retry_with_custom_backoff_uncapped(r, exc) ==
    IF ~IsInstance(exc.type, {"Exception"})
    THEN [do |-> "raise", exc |-> exc, delay |-> 0]
    ELSE IF r.attempt - 1 < r.max_attempts - 1
         THEN [do |-> "sleep", exc |-> exc,
               delay |-> r.initial_delay
                           * r.exponential_base ^ (r.attempt - 1)]
         ELSE [do |-> "raise", exc |-> exc, delay |-> 0]

\* retry_with_custom_backoff: the except clause of the loop, after the
\* invocation with loop index r.attempt - 1 raised exc
retry_with_custom_backoff(r, exc) ==
    IF ~IsInstance(exc.type, {"Exception"})
    THEN [do |-> "raise", exc |-> exc, delay |-> 0]
    ELSE IF r.attempt - 1 < r.max_attempts - 1
         THEN [do |-> "sleep", exc |-> exc,
               delay |-> Min(r.initial_delay
                               * r.exponential_base ^ (r.attempt - 1),
                             r.max_delay)]
         ELSE [do |-> "raise", exc |-> exc, delay |-> 0]

NoOutcome == [kind |-> "none", value |-> "none", exc |-> [type |-> "none", id |-> 0]]
Returned(v) == [kind |-> "return", value |-> v, exc |-> [type |-> "none", id |-> 0]]
Raised(e) == [kind |-> "raise", value |-> "none", exc |-> e]

RetryRuns ==
    [pc : {"begin"},
     kind : {"tenacity", "custom"},
     max_attempts : 0 .. MaxAttempts,
     initial_delay : {1, 2},
     max_delay : {1, 3, 60},
     exponential_base : {2, 3},
     retry_on : {{"Exception"}, {"ValueError"}},
     attempt : {0},
     raised : {<<>>},
     returned : {"none"},
     slept : {<<>>},
     cancelled : {None},
     outcome : {NoOutcome}]

\* the call of the decorated function / of retry_with_custom_backoff
RetryBeginStep ==
    /\ rt.pc = "begin"
    /\ IF rt.kind = "custom" /\ rt.max_attempts <= 0
       THEN rt' = [rt EXCEPT !.pc = "done", !.outcome = Returned("None")]
       ELSE rt' = [rt EXCEPT !.pc = "call"]

\* retry.py line 53 / line 89: the wrapped function is invoked
RetryInvokeStep ==
    /\ rt.pc = "call"
    /\ rt' = [rt EXCEPT !.pc = "in_fn", !.attempt = rt.attempt + 1]

\* the wrapped function returns v: the executor returns it
RetryFnReturnStep(v) ==
    /\ rt.pc = "in_fn"
    /\ rt' = [rt EXCEPT !.pc = "done", !.returned = v, !.outcome = Returned(v)]

\* the wrapped function raises an exception of type t; CancelledError is
\* the cancellation of the calling task while it awaits the function
RetryFnRaiseStep(t) ==
    /\ rt.pc = "in_fn"
    /\ LET exc == [type |-> t, id |-> rt.attempt]
           run == IF t = "CancelledError"
                  THEN [rt EXCEPT !.cancelled = rt.attempt]
                  ELSE rt
           d == IF rt.kind = "tenacity"
                THEN retry_with_backoff(rt, exc)
                ELSE retry_with_custom_backoff(rt, exc)
       IN  IF d.do = "sleep"
           THEN rt' = [run EXCEPT !.pc = "sleep",
                                  !.raised = Append(rt.raised, exc),
                                  !.slept = Append(rt.slept, d.delay)]
           ELSE rt' = [run EXCEPT !.pc = "done",
                                  !.raised = Append(rt.raised, exc),
                                  !.outcome = Raised(d.exc)]

\* the sleep between two attempts is over
RetryWakeStep ==
    /\ rt.pc = "sleep"
    /\ rt' = [rt EXCEPT !.pc = "call"]

\* the calling task is cancelled during the sleep between two attempts:
\* asyncio.sleep raises CancelledError, which no handler of the executor
\* catches
RetryCancelSleepStep ==
    /\ rt.pc = "sleep"
    /\ rt' = [rt EXCEPT !.pc = "done",
                        !.cancelled = rt.attempt,
                        !.outcome = Raised([type |-> "CancelledError", id |-> 0])]

RetryBegin == RetryBeginStep /\ UNCHANGED <<now, breakerVars, chat, hc, sel, app, cls, obs>>
RetryInvoke == RetryInvokeStep /\ UNCHANGED <<now, breakerVars, chat, hc, sel, app, cls, obs>>
RetryFnReturn(v) ==
    RetryFnReturnStep(v) /\ UNCHANGED <<now, breakerVars, chat, hc, sel, app, cls, obs>>
RetryFnRaise(t) ==
    RetryFnRaiseStep(t) /\ UNCHANGED <<now, breakerVars, chat, hc, sel, app, cls, obs>>
RetryWake == RetryWakeStep /\ UNCHANGED <<now, breakerVars, chat, hc, sel, app, cls, obs>>
RetryCancelSleep ==
    RetryCancelSleepStep /\ UNCHANGED <<now, breakerVars, chat, hc, sel, app, cls, obs>>

\* the breaker as constructed, with no caller
BreakerOff ==
    /\ callers = {}
    /\ cfg = ChatBreakerConfig
    /\ stats = CircuitBreakerStats
    /\ lock = 0
    /\ pc = [c \in Tasks |-> "idle"]
    /\ result = [c \in Tasks |-> "none"]
    /\ invoked = 0
    /\ calls = 0
    /\ log = <<>>
    /\ trials = 0
    /\ admitted = [c \in Tasks |-> "none"]

InitRetry ==
    /\ now = 0
    /\ BreakerOff
    /\ rt \in RetryRuns
    /\ chat = ChatOff /\ hc = HcOff /\ sel = SelOff /\ app = AppOff /\ cls = ClsOff
    /\ obs = ObsOff

NextRetry ==
    \/ RetryBegin
    \/ RetryInvoke
    \/ \E v \in Values : RetryFnReturn(v)
    \/ \E t \in ExceptionTypes : RetryFnRaise(t)
    \/ RetryWake
    \/ RetryCancelSleep

\* one run of the retry executor around a function of any behaviour
SpecRetry == InitRetry /\ [][NextRetry]_vars

\* one run in which every invocation returns or raises and every sleep ends
SpecRetryLive == InitRetry /\ [][NextRetry]_vars /\ WF_vars(NextRetry)

(***************************************************************************)
(* Retry executor: properties                                              *)
(***************************************************************************)
RECURSIVE SumSeq(_)
SumSeq(s) == IF s = <<>> THEN 0 ELSE Head(s) + SumSeq(Tail(s))

\* the exception types the executor of run r retries
Retryable(r, t) ==
    IF r.kind = "tenacity"
    THEN IsInstance(t, r.retry_on)
    ELSE IsInstance(t, {"Exception"})

\* so far every invocation but a returning one raised a retryable exception
OnlyRetryableRaised ==
    \A i \in 1 .. Len(rt.raised) : Retryable(rt, rt.raised[i].type)

\* C7: (both executors, max_attempts >= 1) a function whose first k
\* invocations raise a retryable exception, k < max_attempts, and whose next
\* invocation returns, is invoked exactly k + 1 times and the executor
\* returns the value the function returned.
C7_EventualSuccess ==
    (/\ rt.pc # "off"
     /\ rt.max_attempts >= 1
     /\ rt.cancelled = None
     /\ OnlyRetryableRaised
     /\ Len(rt.raised) < rt.max_attempts)
    => (/\ rt.pc = "done" => /\ rt.returned \in Values
                             /\ rt.outcome = Returned(rt.returned)
                             /\ rt.attempt = Len(rt.raised) + 1
        /\ rt.returned # "none" => rt.pc = "done")

\* two retryable failures, then a success at the third and last attempt
C7_Witness ==
    /\ rt.pc = "done"
    /\ rt.max_attempts = 3
    /\ Len(rt.raised) = 2
    /\ OnlyRetryableRaised
    /\ rt.attempt = 3
    /\ rt.outcome = Returned("success")

\* every invocation so far raised a retryable exception, and the task was
\* not cancelled
AlwaysFails ==
    /\ rt.pc # "off"
    /\ rt.cancelled = None
    /\ OnlyRetryableRaised
    /\ rt.returned = "none"

\* C8 as stated, for every max_attempts: a function that always raises a
\* retryable exception is invoked exactly max_attempts times, and the
\* executor then raises the exception raised by the last attempt.
C8_ExhaustionAsStated ==
    AlwaysFails
    => (/\ rt.attempt <= rt.max_attempts
        /\ rt.pc = "done" =>
              /\ rt.attempt = rt.max_attempts
              /\ rt.outcome.kind = "raise"
              /\ rt.outcome.exc.id = rt.max_attempts
              /\ Len(rt.raised) = rt.max_attempts
              /\ rt.outcome = Raised(rt.raised[Len(rt.raised)]))

\* C8: with max_attempts >= 1, for both executors, a function that always
\* raises a retryable exception is invoked exactly max_attempts times, and
\* the executor raises the exception raised by the last attempt, not a
\* wrapper. With max_attempts = 0 retry_with_backoff still invokes the
\* function once and raises the exception of that invocation, and
\* retry_with_custom_backoff invokes nothing and returns None.
C8_Exhaustion ==
    AlwaysFails
    => (/\ rt.max_attempts >= 1
           => (/\ rt.attempt <= rt.max_attempts
               /\ Len(rt.raised) = rt.max_attempts <=> rt.pc = "done"
               /\ rt.pc = "done" =>
                     /\ rt.attempt = rt.max_attempts
                     /\ rt.outcome = Raised(rt.raised[rt.max_attempts])
                     /\ rt.outcome.exc.id = rt.max_attempts)
        /\ (rt.max_attempts = 0 /\ rt.kind = "tenacity")
           => (/\ rt.attempt <= 1
               /\ Len(rt.raised) = 1 <=> rt.pc = "done"
               /\ rt.slept = <<>>
               /\ rt.pc = "done" =>
                     /\ rt.attempt = 1
                     /\ rt.outcome = Raised(rt.raised[1])
                     /\ rt.outcome.exc.id = 1)
        /\ (rt.max_attempts = 0 /\ rt.kind = "custom")
           => (/\ rt.attempt = 0
               /\ rt.raised = <<>>
               /\ rt.slept = <<>>
               /\ rt.pc \in {"begin", "done"}
               /\ rt.pc = "done" => rt.outcome = Returned("None")))

\* three attempts, three retryable exceptions, the third one is raised
C8_Witness ==
    /\ rt.pc = "done"
    /\ rt.max_attempts = 3
    /\ rt.attempt = 3
    /\ Len(rt.raised) = 3
    /\ OnlyRetryableRaised
    /\ rt.outcome = Raised([type |-> "ValueError", id |-> 3])

\* C15 as stated, for every max_attempts: the run ends; the function is
\* invoked at most max_attempts times, the executor sleeps at most
\* max_attempts - 1 times (never, when there is no attempt to sleep
\* between), no sleep is longer than max_delay, and the sleeps add up to at
\* most max_attempts * max_delay.
C15_BoundedRetryAsStated ==
    /\ [](rt.pc # "off"
          => (/\ rt.attempt <= rt.max_attempts
              /\ Len(rt.raised) <= rt.max_attempts
              /\ Len(rt.slept) <= Max(rt.max_attempts - 1, 0)
              /\ \A i \in 1 .. Len(rt.slept) : rt.slept[i] <= rt.max_delay
              /\ SumSeq(rt.slept) <= rt.max_attempts * rt.max_delay))
    /\ <>(rt.pc = "done")

\* C15: when every invocation returns or raises, the run ends, for both
\* executors and every max_attempts. With max_attempts >= 1 the function is
\* invoked at most max_attempts times and the executor sleeps at most
\* max_attempts - 1 times; with max_attempts = 0 retry_with_backoff invokes
\* the function once, retry_with_custom_backoff never, and neither sleeps.
\* No sleep is longer than max_delay, and the sleeps add up to at most
\* max_attempts * max_delay.
C15_BoundedRetry ==
    /\ [](rt.pc # "off"
          => (/\ rt.max_attempts >= 1
                 => (/\ rt.attempt <= rt.max_attempts
                     /\ Len(rt.raised) <= rt.max_attempts
                     /\ Len(rt.slept) <= rt.max_attempts - 1)
              /\ rt.max_attempts = 0
                 => (/\ rt.attempt <= (IF rt.kind = "tenacity" THEN 1 ELSE 0)
                     /\ Len(rt.raised) <= rt.attempt
                     /\ rt.slept = <<>>)
              /\ \A i \in 1 .. Len(rt.slept) : rt.slept[i] <= rt.max_delay
              /\ SumSeq(rt.slept) <= rt.max_attempts * rt.max_delay))
    /\ <>(rt.pc = "done")

\* an exhausted run of three attempts: two sleeps, the second one cut down
\* to max_delay
C15_Witness ==
    /\ rt.pc = "done"
    /\ rt.max_attempts = 3
    /\ rt.attempt = 3
    /\ rt.outcome.kind = "raise"
    /\ rt.max_delay = 1
    /\ rt.slept = <<1, 1>>

C23_NonRetryablePropagates ==
    rt.pc # "off"
    => \A i \in 1 .. Len(rt.raised) :
          ~IsInstance(rt.raised[i].type, rt.retry_on)
          => (/\ rt.pc = "done"
              /\ Len(rt.raised) = i
              /\ rt.attempt = i
              /\ Len(rt.slept) = i - 1
              /\ rt.outcome = Raised(rt.raised[i]))

\* C20 as stated: the delay before attempt i > 1 is
\* min(initial_delay * exponential_base^(i-1), max_delay).
C20_DelayAsStated ==
    rt.pc # "off"
    => \A i \in 2 .. Len(rt.slept) + 1 :
          rt.slept[i - 1]
            = Min(rt.initial_delay * rt.exponential_base ^ (i - 1),
                  rt.max_delay)

\* C20 amended: (both executors) the delay before attempt i > 1 is
\* min(initial_delay * exponential_base^(i-2), max_delay): the first retry
\* waits initial_delay.
C20_DelayBeforeAttempt ==
    rt.pc # "off"
    => \A i \in 2 .. Len(rt.slept) + 1 :
          rt.slept[i - 1]
            = Min(rt.initial_delay * rt.exponential_base ^ (i - 2),
                  rt.max_delay)

\* initial_delay 1, base 2, max_delay 60: the third attempt is running after
\* waits of 1 and 2
C20_Witness ==
    /\ rt.pc = "in_fn"
    /\ rt.attempt = 3
    /\ rt.initial_delay = 1
    /\ rt.exponential_base = 2
    /\ rt.max_delay = 60
    /\ rt.slept = <<1, 2>>

(***************************************************************************)
(* LiteLLMClient.chat: retry_with_backoff around CircuitBreaker.call       *)
(***************************************************************************)
\* the times the clock is seen to have advanced, between two chat() calls
\* or while the provider call is awaited, besides the backoff sleeps
MaxPauses == 1

\* @retry_with_backoff(max_attempts=3, initial_delay=1.0, max_delay=60.0)
ChatInitialDelay == 1
ChatMaxDelay == 60
ChatExponentialBase == 2
ChatRetry(attempt) ==
    [max_attempts |-> ChatMaxAttempts,
     initial_delay |-> ChatInitialDelay,
     max_delay |-> ChatMaxDelay,
     exponential_base |-> ChatExponentialBase,
     retry_on |-> {"Exception"},
     attempt |-> attempt]

\* chat, lines 63-75: the exception raised for an exception whose message
\* does (rate_limit) or does not contain "rate limit" or "429"
ChatTransform(rate_limit) ==
    IF rate_limit THEN "RateLimitError" ELSE "ProviderError"

\* str(CircuitBreakerOpenError) is "Circuit breaker 'litellm' is OPEN.
\* Service unavailable.": neither "rate limit" nor "429"
OpenErrorIsRateLimit == FALSE

ChatIdle ==
    [pc |-> "idle", n |-> 0, attempt |-> 0, rejections |-> 0, delay |-> 0,
     pauses |-> 0, cancelled |-> FALSE, trial |-> FALSE,
     outcome |-> NoOutcome]

\* a request handler calls chat()
ChatBeginStep ==
    /\ chat.pc = "idle"
    /\ chat.n < MaxChats
    /\ chat' = [chat EXCEPT !.pc = "attempt", !.n = chat.n + 1,
                            !.attempt = 0, !.rejections = 0, !.delay = 0,
                            !.outcome = NoOutcome]
    /\ UNCHANGED <<now, breakerVars>>

\* chat, line 62: an attempt enters self.circuit_breaker.call
ChatAttemptStep ==
    /\ chat.pc = "attempt"
    /\ CallAcquireStep(1)
    /\ chat' = [chat EXCEPT !.pc = "calling", !.attempt = chat.attempt + 1]
    /\ UNCHANGED now

\* chat, lines 62-75, and the decorator's decision: the attempt returned,
\* or raised and is either retried after a sleep or raised to the caller
ChatHandleStep ==
    /\ chat.pc = "calling"
    /\ pc[1] = "idle"
    /\ result[1] # "none"
    /\ UNCHANGED <<now, breakerVars>>
    /\ IF result[1] = "ok"
       THEN chat' = [chat EXCEPT !.pc = "idle",
                                 !.trial = chat.trial
                                             \/ admitted[1] = HALF_OPEN,
                                 !.outcome = Returned("success")]
       ELSE \E rate_limit \in BOOLEAN :
              /\ result[1] = "CircuitBreakerOpenError"
                   => rate_limit = OpenErrorIsRateLimit
              /\ result[1] = "other" => rate_limit = FALSE
              /\ LET exc == [type |-> IF result[1] = "other"
                                      THEN "CancelledError"
                                      ELSE ChatTransform(rate_limit),
                             id |-> chat.attempt]
                     d == retry_with_backoff(ChatRetry(chat.attempt), exc)
                     rej == IF result[1] = "CircuitBreakerOpenError"
                            THEN chat.rejections + 1
                            ELSE chat.rejections
                     cancelled == chat.cancelled \/ result[1] = "other"
                     trial == chat.trial \/ admitted[1] = HALF_OPEN
                 IN  IF d.do = "sleep"
                     THEN chat' = [chat EXCEPT !.pc = "sleep",
                                               !.rejections = rej,
                                               !.cancelled = cancelled,
                                               !.trial = trial,
                                               !.delay = d.delay]
                     ELSE chat' = [chat EXCEPT !.pc = "idle",
                                               !.rejections = rej,
                                               !.cancelled = cancelled,
                                               !.trial = trial,
                                               !.outcome = Raised(d.exc)]

\* the backoff sleep is over: the delay has passed
ChatWakeStep ==
    /\ chat.pc = "sleep"
    /\ now' = now + chat.delay
    /\ chat' = [chat EXCEPT !.pc = "attempt", !.delay = 0]
    /\ UNCHANGED breakerVars

\* the task is cancelled during the backoff sleep: asyncio.sleep raises
\* CancelledError, which neither tenacity nor chat() catches
ChatCancelSleepStep ==
    /\ chat.pc = "sleep"
    /\ chat' = [chat EXCEPT !.pc = "idle", !.delay = 0, !.cancelled = TRUE,
                            !.outcome = Raised([type |-> "CancelledError",
                                                id |-> 0])]
    /\ UNCHANGED <<now, breakerVars>>

\* datetime.now() is later than it was: no chat() is running for a while,
\* or the awaited provider call takes its time
ChatPauseStep ==
    /\ chat.pc = "idle" \/ pc[1] = "in_fn"
    /\ chat.pauses < MaxPauses
    /\ \E d \in 1 .. cfg.timeout : now' = now + d
    /\ chat' = [chat EXCEPT !.pauses = chat.pauses + 1]
    /\ UNCHANGED breakerVars

ChatBegin == ChatBeginStep /\ UNCHANGED <<rt, hc, sel, app, cls, obs>>
ChatAttempt == ChatAttemptStep /\ UNCHANGED <<rt, hc, sel, app, cls, obs>>
ChatHandle == ChatHandleStep /\ UNCHANGED <<rt, hc, sel, app, cls, obs>>
ChatWake == ChatWakeStep /\ UNCHANGED <<rt, hc, sel, app, cls, obs>>
ChatPause == ChatPauseStep /\ UNCHANGED <<rt, hc, sel, app, cls, obs>>
ChatCancelSleep ==
    ChatCancelSleepStep /\ UNCHANGED <<rt, hc, sel, app, cls, obs>>

InitChat ==
    /\ now = 0
    /\ callers = {1}
    /\ cfg = ChatBreakerConfig
    /\ stats = CircuitBreakerStats
    /\ lock = 0
    /\ pc = [c \in Tasks |-> "idle"]
    /\ result = [c \in Tasks |-> "none"]
    /\ invoked = 0
    /\ calls = 0
    /\ log = <<>>
    /\ trials = 0
    /\ admitted = [c \in Tasks |-> "none"]
    /\ chat = ChatIdle
    /\ rt = RtOff /\ hc = HcOff /\ sel = SelOff /\ app = AppOff /\ cls = ClsOff
    /\ obs = ObsOff

NextChat ==
    \/ ChatBegin
    \/ ChatAttempt
    \/ CallCheck(1)
    \/ FnReturn(1)
    \/ FnRaise(1)
    \/ FnRaiseOther(1)
    \/ RecordSuccessDone(1)
    \/ RecordFailureDone(1)
    \/ ChatHandle
    \/ ChatWake
    \/ ChatCancelSleep
    \/ ChatPause

\* sequential chat() calls on one LiteLLMClient
SpecChat == InitChat /\ [][NextChat]_vars

\* C6: when the breaker rejects an attempt with CircuitBreakerOpenError,
\* chat() makes no further attempt and no backoff sleep: the call is over as
\* soon as the rejection is handled.
C6_RejectionNotRetried ==
    chat.pc # "off" /\ chat.rejections > 0 => chat.pc = "idle"

\* so far the provider has failed at every invocation with an
\* expected_exception, no task was cancelled, and no call() came as late as
\* the breaker timeout after the breaker had opened (such a call is let
\* through as a trial call)
ProviderAlwaysFails ==
    /\ chat.pc # "off"
    /\ ~chat.cancelled
    /\ ~chat.trial /\ admitted[1] # HALF_OPEN
    /\ \A i \in 1 .. Len(log) : log[i] = "f"
    /\ invoked = Len(log) + (IF pc[1] \in {"in_fn", "record_failure"} THEN 1 ELSE 0)

\* C28: every attempt of chat() goes through the breaker and is counted on
\* its own. For sequential chat() calls on one client whose provider always
\* fails, within the breaker timeout: the provider is invoked for the first
\* failure_threshold = 5 attempts and for no later one, the later attempts
\* being rejected by the breaker, and every chat() makes its 3 attempts and
\* ends by raising ProviderError or RateLimitError, never
\* CircuitBreakerOpenError.
C28_AttemptsCountedSeparately ==
    ProviderAlwaysFails
    => (/\ invoked <= ChatFailureThreshold
        /\ pc[1] = "idle" => invoked = Min(calls, ChatFailureThreshold)
        /\ calls = (IF chat.pc = "idle" THEN chat.n ELSE chat.n - 1)
                     * ChatMaxAttempts
                   + (IF chat.pc = "idle" THEN 0 ELSE chat.attempt)
        /\ chat.rejections > 0 => stats.state = OPEN
        /\ (chat.pc = "idle" /\ chat.n > 0)
           => (/\ chat.attempt = ChatMaxAttempts
               /\ chat.outcome.kind = "raise"
               /\ chat.outcome.exc.type \in {"ProviderError", "RateLimitError"}
               /\ chat.outcome.exc.id = ChatMaxAttempts))

\* three chat() calls are over: 9 attempts, the provider invoked for the
\* first 5, the third chat() rejected three times and ended by ProviderError
C28_Witness ==
    /\ ProviderAlwaysFails
    /\ now - stats.opened_at < cfg.timeout
    /\ chat.pc = "idle"
    /\ chat.n = 3
    /\ calls = 9
    /\ invoked = 5
    /\ chat.rejections = 3
    /\ stats.state = OPEN
    /\ stats.failures = 5
    /\ chat.outcome.exc.type = "ProviderError"

(***************************************************************************)
(* ProviderHealthChecker                                                   *)
(***************************************************************************)
MaxTtl == 2
MaxOps == 4

Providers == {"groq", "openrouter"}

\* no entry for the provider in health_cache
Absent == [present |-> FALSE, healthy |-> FALSE, time |-> 0]
Entry(is_healthy, t) == [present |-> TRUE, healthy |-> is_healthy, time |-> t]

\* a probe that fails for one of the providers
ProbeRaisesForGroq(p) == p = "groq"

\* lines 51-58: building the test ChatRequest for a provider name raises
\* nothing, and no request is sent
ProbeRaises(p) == FALSE

\* a cache whose entries stay valid one second too long (<= instead of <)
CacheFreshInclusive(h, p, t) ==
    h.cache[p].present /\ t - h.cache[p].time <= h.ttl

\* lines 45-47 and 85-87: the provider has an entry younger than the ttl
CacheFresh(h, p, t) ==
    h.cache[p].present /\ t - h.cache[p].time < h.ttl

\* the last operation, what it returned and the entry it found for its provider
NoOp == [op |-> "none", provider |-> "none", force |-> FALSE,
         ret |-> FALSE, none |-> TRUE, probed |-> FALSE, was |-> Absent]

HealthCheckers ==
    [pc : {"on"},
     ttl : 0 .. MaxTtl,
     cache : {[p \in Providers |-> Absent]},
     ops : {0},
     last : {NoOp}]

\* check_provider_health(provider, litellm_client, force_check)
CheckProviderHealthStep(p, force_check) ==
    /\ hc.pc = "on"
    /\ hc.ops < MaxOps
    /\ IF ~force_check /\ CacheFresh(hc, p, now)
       THEN hc' = [hc EXCEPT !.ops = hc.ops + 1,
                             !.last = [op |-> "check", provider |-> p,
                                       force |-> force_check,
                                       ret |-> hc.cache[p].healthy,
                                       none |-> FALSE, probed |-> FALSE,
                                       was |-> hc.cache[p]]]
       ELSE LET is_healthy == ~ProbeRaises(p)
            IN  hc' = [hc EXCEPT !.ops = hc.ops + 1,
                                 !.cache[p] = Entry(is_healthy, now),
                                 !.last = [op |-> "check", provider |-> p,
                                           force |-> force_check,
                                           ret |-> is_healthy,
                                           none |-> FALSE, probed |-> TRUE,
                                           was |-> hc.cache[p]]]

\* get_cached_health(provider)
GetCachedHealthStep(p) ==
    /\ hc.pc = "on"
    /\ hc.ops < MaxOps
    /\ hc' = [hc EXCEPT !.ops = hc.ops + 1,
                        !.last = [op |-> "get_cached", provider |-> p,
                                  force |-> FALSE,
                                  ret |-> IF CacheFresh(hc, p, now)
                                          THEN hc.cache[p].healthy
                                          ELSE FALSE,
                                  none |-> ~CacheFresh(hc, p, now),
                                  probed |-> FALSE, was |-> hc.cache[p]]]

\* mark_unhealthy(provider) and mark_healthy(provider)
MarkStep(p, is_healthy) ==
    /\ hc.pc = "on"
    /\ hc.ops < MaxOps
    /\ hc' = [hc EXCEPT !.ops = hc.ops + 1,
                        !.cache[p] = Entry(is_healthy, now),
                        !.last = [op |-> IF is_healthy THEN "mark_healthy"
                                         ELSE "mark_unhealthy",
                                  provider |-> p, force |-> FALSE,
                                  ret |-> FALSE, none |-> TRUE,
                                  probed |-> FALSE, was |-> hc.cache[p]]]

\* clear_cache()
ClearCacheStep ==
    /\ hc.pc = "on"
    /\ hc.ops < MaxOps
    /\ hc' = [hc EXCEPT !.ops = hc.ops + 1,
                        !.cache = [p \in Providers |-> Absent],
                        !.last = [NoOp EXCEPT !.op = "clear_cache"]]

CheckProviderHealth(p, force_check) ==
    /\ CheckProviderHealthStep(p, force_check)
    /\ UNCHANGED <<now, breakerVars, rt, chat, sel, app, cls, obs>>
GetCachedHealth(p) ==
    GetCachedHealthStep(p) /\ UNCHANGED <<now, breakerVars, rt, chat, sel, app, cls, obs>>
MarkUnhealthy(p) ==
    MarkStep(p, FALSE) /\ UNCHANGED <<now, breakerVars, rt, chat, sel, app, cls, obs>>
MarkHealthy(p) ==
    MarkStep(p, TRUE) /\ UNCHANGED <<now, breakerVars, rt, chat, sel, app, cls, obs>>
ClearCache == ClearCacheStep /\ UNCHANGED <<now, breakerVars, rt, chat, sel, app, cls, obs>>
HealthTick == TickStep /\ UNCHANGED <<breakerVars, rt, chat, hc, sel, app, cls, obs>>

InitHealth ==
    /\ now = 0
    /\ BreakerOff
    /\ hc \in HealthCheckers
    /\ rt = RtOff /\ chat = ChatOff /\ sel = SelOff /\ app = AppOff /\ cls = ClsOff
    /\ obs = ObsOff

NextHealth ==
    \/ \E p \in Providers :
          \/ \E force_check \in BOOLEAN : CheckProviderHealth(p, force_check)
          \/ GetCachedHealth(p)
          \/ MarkUnhealthy(p)
          \/ MarkHealthy(p)
    \/ ClearCache
    \/ HealthTick

\* the operations of one ProviderHealthChecker, in any order
SpecHealth == InitHealth /\ [][NextHealth]_vars

\* C9: check_provider_health(p, force_check=False) returns the cached value
\* without probing and leaves the cache unchanged exactly when p has an entry
\* with now - observedAt < ttl; in every other case (no entry, age >= ttl,
\* force_check=True) it probes, overwrites p's entry with the probe result
\* and the current time, and returns the new value.
C9_HealthTtl ==
    [][(hc.pc = "on" /\ hc'.ops # hc.ops /\ hc'.last.op = "check")
       => LET p == hc'.last.provider
              cached == /\ ~hc'.last.force
                        /\ hc.cache[p].present
                        /\ now - hc.cache[p].time < hc.ttl
          IN  IF cached
              THEN /\ ~hc'.last.probed
                   /\ hc'.last.ret = hc.cache[p].healthy
                   /\ hc'.cache = hc.cache
              ELSE /\ hc'.last.probed
                   /\ hc'.cache[p]
                        = [present |-> TRUE, healthy |-> hc'.last.ret,
                           time |-> now]
                   /\ \A q \in Providers \ {p} :
                         hc'.cache[q] = hc.cache[q]]_vars

\* a check answered from an entry that is one second old, without a probe
C9_Witness ==
    /\ hc.pc = "on"
    /\ hc.last.op = "check"
    /\ ~hc.last.probed
    /\ ~hc.last.ret
    /\ hc.cache[hc.last.provider].time = now - 1
    /\ hc.ttl = 2

(***************************************************************************)
(* BenchmarkSelector.select_model                                          *)
(***************************************************************************)
\* str values are TLA+ strings; NoneStr stands for None (no str equals it)
NoneStr == "<None>"
\* truth value of an Optional[str]: None and "" are false
Truthy(x) == x # NoneStr /\ x # ""

\* pattern in s
Contains(s, pattern) ==
    \E i \in 1 .. (Len(s) - Len(pattern) + 1) :
        SubSeq(s, i, i + Len(pattern) - 1) = pattern

RECURSIVE Replace(_, _, _)
\* s.replace(old, new), old not empty
Replace(s, old, new) ==
    IF Len(s) < Len(old)
    THEN s
    ELSE IF SubSeq(s, 1, Len(old)) = old
         THEN new \o Replace(SubSeq(s, Len(old) + 1, Len(s)), old, new)
         ELSE SubSeq(s, 1, 1) \o Replace(SubSeq(s, 2, Len(s)), old, new)

\* categorization.py: the catalog, in insertion order
MODEL_CATEGORIZATION ==
    <<
       [id |-> "llama-3.1-8b-instant", provider |-> "groq",
        model |-> "llama-3.1-8b-instant", category |-> "fast"],
       [id |-> "llama-3.3-70b-versatile", provider |-> "groq",
        model |-> "llama-3.3-70b-versatile", category |-> "powerful"],
       [id |-> "llama-4-maverick", provider |-> "groq",
        model |-> "meta-llama/llama-4-maverick-17b-128e-instruct", category |-> "powerful"],
       [id |-> "llama-4-scout", provider |-> "groq",
        model |-> "meta-llama/llama-4-scout-17b-16e-instruct", category |-> "powerful"],
       [id |-> "github/openai-gpt-5", provider |-> "github-copilot",
        model |-> "openai/gpt-5", category |-> "powerful"],
       [id |-> "github/openai-gpt-5-chat", provider |-> "github-copilot",
        model |-> "openai/gpt-5-chat", category |-> "powerful"],
       [id |-> "github/openai-gpt-5-mini", provider |-> "github-copilot",
        model |-> "openai/gpt-5-mini", category |-> "fast"],
       [id |-> "github/openai-gpt-5-nano", provider |-> "github-copilot",
        model |-> "openai/gpt-5-nano", category |-> "fast"],
       [id |-> "github/openai-gpt-4.1", provider |-> "github-copilot",
        model |-> "openai/gpt-4.1", category |-> "powerful"],
       [id |-> "github/openai-gpt-4.1-mini", provider |-> "github-copilot",
        model |-> "openai/gpt-4.1-mini", category |-> "fast"],
       [id |-> "github/openai-gpt-4.1-nano", provider |-> "github-copilot",
        model |-> "openai/gpt-4.1-nano", category |-> "fast"],
       [id |-> "github/openai-gpt-4o", provider |-> "github-copilot",
        model |-> "openai/gpt-4o", category |-> "powerful"],
       [id |-> "github/openai-gpt-4o-mini", provider |-> "github-copilot",
        model |-> "openai/gpt-4o-mini", category |-> "fast"],
       [id |-> "github/openai-o1", provider |-> "github-copilot",
        model |-> "openai/o1", category |-> "powerful"],
       [id |-> "github/openai-o3", provider |-> "github-copilot",
        model |-> "openai/o3", category |-> "powerful"],
       [id |-> "github/openai-o3-mini", provider |-> "github-copilot",
        model |-> "openai/o3-mini", category |-> "powerful"],
       [id |-> "github/openai-o4-mini", provider |-> "github-copilot",
        model |-> "openai/o4-mini", category |-> "powerful"],
       [id |-> "github/meta-llama-3.3-70b", provider |-> "github-copilot",
        model |-> "meta/llama-3.3-70b-instruct", category |-> "powerful"],
       [id |-> "github/meta-llama-3.2-11b-vision", provider |-> "github-copilot",
        model |-> "meta/llama-3.2-11b-vision-instruct", category |-> "powerful"],
       [id |-> "github/meta-llama-3.2-90b-vision", provider |-> "github-copilot",
        model |-> "meta/llama-3.2-90b-vision-instruct", category |-> "powerful"],
       [id |-> "github/meta-llama-4-maverick", provider |-> "github-copilot",
        model |-> "meta/llama-4-maverick-17b-128e-instruct-fp8", category |-> "powerful"],
       [id |-> "github/meta-llama-4-scout", provider |-> "github-copilot",
        model |-> "meta/llama-4-scout-17b-16e-instruct", category |-> "powerful"],
       [id |-> "github/microsoft-phi-4", provider |-> "github-copilot",
        model |-> "microsoft/phi-4", category |-> "powerful"],
       [id |-> "github/microsoft-phi-4-mini", provider |-> "github-copilot",
        model |-> "microsoft/phi-4-mini-instruct", category |-> "fast"],
       [id |-> "github/xai-grok-3", provider |-> "github-copilot",
        model |-> "xai/grok-3", category |-> "powerful"],
       [id |-> "github/xai-grok-3-mini", provider |-> "github-copilot",
        model |-> "xai/grok-3-mini", category |-> "fast"],
       [id |-> "github/cohere-command-a", provider |-> "github-copilot",
        model |-> "cohere/cohere-command-a", category |-> "powerful"],
       [id |-> "github/cohere-command-r", provider |-> "github-copilot",
        model |-> "cohere/cohere-command-r-08-2024", category |-> "powerful"],
       [id |-> "github/cohere-command-r-plus", provider |-> "github-copilot",
        model |-> "cohere/cohere-command-r-plus-08-2024", category |-> "powerful"],
       [id |-> "github/deepseek-r1", provider |-> "github-copilot",
        model |-> "deepseek/deepseek-r1", category |-> "powerful"],
       [id |-> "github/deepseek-r1-0528", provider |-> "github-copilot",
        model |-> "deepseek/deepseek-r1-0528", category |-> "powerful"],
       [id |-> "github/deepseek-v3", provider |-> "github-copilot",
        model |-> "deepseek/deepseek-v3-0324", category |-> "powerful"],
       [id |-> "openai/gpt-5", provider |-> "github-copilot",
        model |-> "openai/gpt-5", category |-> "powerful"],
       [id |-> "openai/gpt-5-chat", provider |-> "github-copilot",
        model |-> "openai/gpt-5-chat", category |-> "powerful"],
       [id |-> "openai/gpt-5-mini", provider |-> "github-copilot",
        model |-> "openai/gpt-5-mini", category |-> "fast"],
       [id |-> "openai/gpt-5-nano", provider |-> "github-copilot",
        model |-> "openai/gpt-5-nano", category |-> "fast"],
       [id |-> "openai/gpt-4.1", provider |-> "github-copilot",
        model |-> "openai/gpt-4.1", category |-> "powerful"],
       [id |-> "openai/gpt-4.1-mini", provider |-> "github-copilot",
        model |-> "openai/gpt-4.1-mini", category |-> "fast"],
       [id |-> "openai/gpt-4.1-nano", provider |-> "github-copilot",
        model |-> "openai/gpt-4.1-nano", category |-> "fast"],
       [id |-> "openai/gpt-4o", provider |-> "github-copilot",
        model |-> "openai/gpt-4o", category |-> "powerful"],
       [id |-> "openai/gpt-4o-mini", provider |-> "github-copilot",
        model |-> "openai/gpt-4o-mini", category |-> "fast"],
       [id |-> "openai/o1", provider |-> "github-copilot",
        model |-> "openai/o1", category |-> "powerful"],
       [id |-> "openai/o3", provider |-> "github-copilot",
        model |-> "openai/o3", category |-> "powerful"],
       [id |-> "openai/o3-mini", provider |-> "github-copilot",
        model |-> "openai/o3-mini", category |-> "powerful"],
       [id |-> "openai/o4-mini", provider |-> "github-copilot",
        model |-> "openai/o4-mini", category |-> "powerful"],
       [id |-> "meta/llama-3.3-70b-instruct", provider |-> "github-copilot",
        model |-> "meta/llama-3.3-70b-instruct", category |-> "powerful"],
       [id |-> "meta/llama-3.2-11b-vision-instruct", provider |-> "github-copilot",
        model |-> "meta/llama-3.2-11b-vision-instruct", category |-> "powerful"],
       [id |-> "meta/llama-3.2-90b-vision-instruct", provider |-> "github-copilot",
        model |-> "meta/llama-3.2-90b-vision-instruct", category |-> "powerful"],
       [id |-> "meta/llama-4-maverick-17b-128e-instruct-fp8", provider |-> "github-copilot",
        model |-> "meta/llama-4-maverick-17b-128e-instruct-fp8", category |-> "powerful"],
       [id |-> "meta/llama-4-scout-17b-16e-instruct", provider |-> "github-copilot",
        model |-> "meta/llama-4-scout-17b-16e-instruct", category |-> "powerful"],
       [id |-> "microsoft/phi-4", provider |-> "github-copilot",
        model |-> "microsoft/phi-4", category |-> "powerful"],
       [id |-> "microsoft/phi-4-mini-instruct", provider |-> "github-copilot",
        model |-> "microsoft/phi-4-mini-instruct", category |-> "fast"],
       [id |-> "xai/grok-3", provider |-> "github-copilot",
        model |-> "xai/grok-3", category |-> "powerful"],
       [id |-> "xai/grok-3-mini", provider |-> "github-copilot",
        model |-> "xai/grok-3-mini", category |-> "fast"],
       [id |-> "cohere/cohere-command-a", provider |-> "github-copilot",
        model |-> "cohere/cohere-command-a", category |-> "powerful"],
       [id |-> "cohere/cohere-command-r-08-2024", provider |-> "github-copilot",
        model |-> "cohere/cohere-command-r-08-2024", category |-> "powerful"],
       [id |-> "cohere/cohere-command-r-plus-08-2024", provider |-> "github-copilot",
        model |-> "cohere/cohere-command-r-plus-08-2024", category |-> "powerful"],
       [id |-> "deepseek/deepseek-r1", provider |-> "github-copilot",
        model |-> "deepseek/deepseek-r1", category |-> "powerful"],
       [id |-> "deepseek/deepseek-r1-0528", provider |-> "github-copilot",
        model |-> "deepseek/deepseek-r1-0528", category |-> "powerful"],
       [id |-> "deepseek/deepseek-v3-0324", provider |-> "github-copilot",
        model |-> "deepseek/deepseek-v3-0324", category |-> "powerful"],
       [id |-> "meta-llama/llama-3.1-8b-instruct", provider |-> "openrouter",
        model |-> "meta-llama/llama-3.1-8b-instruct", category |-> "fast"],
       [id |-> "meta-llama/llama-3.2-11b-instruct", provider |-> "openrouter",
        model |-> "meta-llama/llama-3.2-11b-instruct", category |-> "fast"],
       [id |-> "meta-llama/llama-3.2-90b-instruct", provider |-> "openrouter",
        model |-> "meta-llama/llama-3.2-90b-instruct", category |-> "powerful"],
       [id |-> "microsoft/phi-3-mini-4k-instruct", provider |-> "openrouter",
        model |-> "microsoft/phi-3-mini-4k-instruct", category |-> "fast"],
       [id |-> "google/gemini-flash-1.5", provider |-> "openrouter",
        model |-> "google/gemini-flash-1.5", category |-> "fast"],
       [id |-> "deepseek/deepseek-chat:free", provider |-> "openrouter",
        model |-> "deepseek/deepseek-chat:free", category |-> "fast"],
       [id |-> "mistralai/mistral-small", provider |-> "openrouter",
        model |-> "mistralai/mistral-small", category |-> "powerful"],
       [id |-> "qwen/qwen-2.5-7b-instruct", provider |-> "openrouter",
        model |-> "qwen/qwen-2.5-7b-instruct", category |-> "fast"],
       [id |-> "gemini-2.5-flash", provider |-> "gemini",
        model |-> "gemini-2.5-flash", category |-> "fast"],
       [id |-> "gemini-flash-latest", provider |-> "gemini",
        model |-> "gemini-flash-latest", category |-> "fast"],
       [id |-> "gemini-2.0-flash-exp", provider |-> "gemini",
        model |-> "gemini-2.0-flash-exp", category |-> "fast"],
       [id |-> "gemini-2.0-flash", provider |-> "gemini",
        model |-> "gemini-2.0-flash", category |-> "fast"],
       [id |-> "gemini-2.0-flash-lite", provider |-> "gemini",
        model |-> "gemini-2.0-flash-lite", category |-> "fast"],
       [id |-> "gemini-2.5-pro", provider |-> "gemini",
        model |-> "gemini-2.5-pro", category |-> "powerful"],
       [id |-> "gemini-pro-latest", provider |-> "gemini",
        model |-> "gemini-pro-latest", category |-> "powerful"],
       [id |-> "mistral-tiny", provider |-> "mistral",
        model |-> "mistral-tiny", category |-> "fast"],
       [id |-> "mistral-7b-instruct", provider |-> "mistral",
        model |-> "mistral-7b-instruct", category |-> "fast"],
       [id |-> "mistral-small-latest", provider |-> "mistral",
        model |-> "mistral-small-latest", category |-> "powerful"],
       [id |-> "mistral-medium-latest", provider |-> "mistral",
        model |-> "mistral-medium-latest", category |-> "powerful"],
       [id |-> "mistral-large-latest", provider |-> "mistral",
        model |-> "mistral-large-latest", category |-> "powerful"],
       [id |-> "pixtral-12b", provider |-> "mistral",
        model |-> "pixtral-12b", category |-> "powerful"],
       [id |-> "codestral-latest", provider |-> "codestral",
        model |-> "codestral-latest", category |-> "fast"]
    >>

\* benchmarks.py: the benchmark table
BENCHMARK_SCORES ==
    <<
       [model |-> "llama-3.1-8b-instant", provider |-> "groq", mmlu |-> 68,
        category |-> "fast", ranking |-> 1],
       [model |-> "mixtral-8x7b-32768", provider |-> "groq", mmlu |-> 70,
        category |-> "fast", ranking |-> 2],
       [model |-> "anthropic/claude-3-haiku", provider |-> "github-copilot", mmlu |-> 75,
        category |-> "fast", ranking |-> 3],
       [model |-> "openai/gpt-3.5-turbo", provider |-> "github-copilot", mmlu |-> 70,
        category |-> "fast", ranking |-> 4],
       [model |-> "gemini-2.0-flash-exp", provider |-> "gemini", mmlu |-> 72,
        category |-> "fast", ranking |-> 5],
       [model |-> "gemini-1.5-flash", provider |-> "gemini", mmlu |-> 74,
        category |-> "fast", ranking |-> 6],
       [model |-> "mistral-tiny", provider |-> "mistral", mmlu |-> 65,
        category |-> "fast", ranking |-> 7],
       [model |-> "mistral-7b-instruct", provider |-> "mistral", mmlu |-> 68,
        category |-> "fast", ranking |-> 8],
       [model |-> "deepseek-chat", provider |-> "deepseek", mmlu |-> 73,
        category |-> "fast", ranking |-> 9],
       [model |-> "codestral-latest", provider |-> "codestral", mmlu |-> 70,
        category |-> "fast", ranking |-> 10],
       [model |-> "anthropic/claude-3-opus", provider |-> "github-copilot", mmlu |-> 87,
        category |-> "powerful", ranking |-> 1],
       [model |-> "llama-3.1-405b-reasoning", provider |-> "groq", mmlu |-> 85,
        category |-> "powerful", ranking |-> 2],
       [model |-> "openai/gpt-4o", provider |-> "github-copilot", mmlu |-> 88,
        category |-> "powerful", ranking |-> 3],
       [model |-> "deepseek-reasoner", provider |-> "deepseek", mmlu |-> 83,
        category |-> "powerful", ranking |-> 4],
       [model |-> "gemini-1.5-pro", provider |-> "gemini", mmlu |-> 84,
        category |-> "powerful", ranking |-> 5],
       [model |-> "openai/gpt-4-turbo", provider |-> "github-copilot", mmlu |-> 87,
        category |-> "powerful", ranking |-> 6],
       [model |-> "anthropic/claude-3-sonnet", provider |-> "github-copilot", mmlu |-> 82,
        category |-> "powerful", ranking |-> 7],
       [model |-> "llama-3.3-70b-versatile", provider |-> "groq", mmlu |-> 82,
        category |-> "powerful", ranking |-> 8],
       [model |-> "llama-3.1-70b-versatile", provider |-> "groq", mmlu |-> 80,
        category |-> "powerful", ranking |-> 9],
       [model |-> "mistral-large-latest", provider |-> "mistral", mmlu |-> 83,
        category |-> "powerful", ranking |-> 10]
    >>

\* pricing.py: the price table; the costs per million tokens are in
\* hundredths of a dollar (0.27 is 27)
MODEL_PRICING ==
    <<
       [provider |-> "github-copilot", model |-> "openai/gpt-4o",
        input_cost_per_million |-> 0, output_cost_per_million |-> 0],
       [provider |-> "github-copilot", model |-> "openai/gpt-4-turbo",
        input_cost_per_million |-> 0, output_cost_per_million |-> 0],
       [provider |-> "github-copilot", model |-> "openai/gpt-3.5-turbo",
        input_cost_per_million |-> 0, output_cost_per_million |-> 0],
       [provider |-> "github-copilot", model |-> "openai/o1",
        input_cost_per_million |-> 0, output_cost_per_million |-> 0],
       [provider |-> "github-copilot", model |-> "cohere/cohere-command-a",
        input_cost_per_million |-> 0, output_cost_per_million |-> 0],
       [provider |-> "github-copilot", model |-> "cohere/cohere-command-r-08-2024",
        input_cost_per_million |-> 0, output_cost_per_million |-> 0],
       [provider |-> "github-copilot", model |-> "cohere/cohere-command-r-plus-08-2024",
        input_cost_per_million |-> 0, output_cost_per_million |-> 0],
       [provider |-> "github-copilot", model |-> "deepseek/deepseek-r1",
        input_cost_per_million |-> 0, output_cost_per_million |-> 0],
       [provider |-> "github-copilot", model |-> "deepseek/deepseek-r1-0528",
        input_cost_per_million |-> 0, output_cost_per_million |-> 0],
       [provider |-> "github-copilot", model |-> "deepseek/deepseek-v3-0324",
        input_cost_per_million |-> 0, output_cost_per_million |-> 0],
       [provider |-> "github-copilot", model |-> "meta/llama-3.2-11b-vision-instruct",
        input_cost_per_million |-> 0, output_cost_per_million |-> 0],
       [provider |-> "github-copilot", model |-> "meta/llama-3.2-90b-vision-instruct",
        input_cost_per_million |-> 0, output_cost_per_million |-> 0],
       [provider |-> "groq", model |-> "llama-3.1-8b-instant",
        input_cost_per_million |-> 0, output_cost_per_million |-> 0],
       [provider |-> "groq", model |-> "llama-3.3-70b-versatile",
        input_cost_per_million |-> 0, output_cost_per_million |-> 0],
       [provider |-> "groq", model |-> "meta-llama/llama-4-maverick-17b-128e-instruct",
        input_cost_per_million |-> 0, output_cost_per_million |-> 0],
       [provider |-> "groq", model |-> "meta-llama/llama-4-scout-17b-16e-instruct",
        input_cost_per_million |-> 0, output_cost_per_million |-> 0],
       [provider |-> "deepseek", model |-> "deepseek-chat",
        input_cost_per_million |-> 27, output_cost_per_million |-> 110],
       [provider |-> "deepseek", model |-> "deepseek-coder",
        input_cost_per_million |-> 27, output_cost_per_million |-> 110],
       [provider |-> "deepseek", model |-> "deepseek-reasoner",
        input_cost_per_million |-> 55, output_cost_per_million |-> 219],
       [provider |-> "openrouter", model |-> "meta-llama/llama-3-8b-instruct",
        input_cost_per_million |-> 5, output_cost_per_million |-> 15],
       [provider |-> "openrouter", model |-> "meta-llama/llama-3-70b-instruct",
        input_cost_per_million |-> 59, output_cost_per_million |-> 79],
       [provider |-> "openrouter", model |-> "mistralai/mistral-7b-instruct",
        input_cost_per_million |-> 20, output_cost_per_million |-> 60],
       [provider |-> "openrouter", model |-> "anthropic/claude-3-haiku",
        input_cost_per_million |-> 80, output_cost_per_million |-> 400],
       [provider |-> "openrouter", model |-> "openai/gpt-3.5-turbo",
        input_cost_per_million |-> 50, output_cost_per_million |-> 150],
       [provider |-> "openrouter", model |-> "google/gemini-pro",
        input_cost_per_million |-> 10, output_cost_per_million |-> 40],
       [provider |-> "openrouter", model |-> "openai/gpt-4",
        input_cost_per_million |-> 3000, output_cost_per_million |-> 6000],
       [provider |-> "openrouter", model |-> "openai/gpt-4-turbo",
        input_cost_per_million |-> 1000, output_cost_per_million |-> 3000],
       [provider |-> "openrouter", model |-> "anthropic/claude-3-sonnet",
        input_cost_per_million |-> 300, output_cost_per_million |-> 1500],
       [provider |-> "openrouter", model |-> "anthropic/claude-3-opus",
        input_cost_per_million |-> 1500, output_cost_per_million |-> 7500],
       [provider |-> "openrouter", model |-> "mistralai/mistral-medium",
        input_cost_per_million |-> 200, output_cost_per_million |-> 600],
       [provider |-> "gemini", model |-> "gemini-2.0-flash-exp",
        input_cost_per_million |-> 10, output_cost_per_million |-> 40],
       [provider |-> "gemini", model |-> "gemini-2.0-flash",
        input_cost_per_million |-> 10, output_cost_per_million |-> 40],
       [provider |-> "gemini", model |-> "gemini-2.0-flash-lite",
        input_cost_per_million |-> 10, output_cost_per_million |-> 40],
       [provider |-> "gemini", model |-> "gemini-2.5-flash",
        input_cost_per_million |-> 10, output_cost_per_million |-> 40],
       [provider |-> "gemini", model |-> "gemini-flash-latest",
        input_cost_per_million |-> 10, output_cost_per_million |-> 40],
       [provider |-> "gemini", model |-> "gemini-2.5-pro",
        input_cost_per_million |-> 125, output_cost_per_million |-> 500],
       [provider |-> "gemini", model |-> "gemini-pro-latest",
        input_cost_per_million |-> 125, output_cost_per_million |-> 500],
       [provider |-> "gemini", model |-> "gemini-1.5-flash",
        input_cost_per_million |-> 7, output_cost_per_million |-> 30],
       [provider |-> "gemini", model |-> "gemini-1.5-pro",
        input_cost_per_million |-> 125, output_cost_per_million |-> 500],
       [provider |-> "gemini", model |-> "gemini-1.5-pro-latest",
        input_cost_per_million |-> 125, output_cost_per_million |-> 500],
       [provider |-> "mistral", model |-> "mistral-tiny",
        input_cost_per_million |-> 20, output_cost_per_million |-> 60],
       [provider |-> "mistral", model |-> "mistral-7b-instruct",
        input_cost_per_million |-> 20, output_cost_per_million |-> 60],
       [provider |-> "mistral", model |-> "mistral-small",
        input_cost_per_million |-> 200, output_cost_per_million |-> 600],
       [provider |-> "mistral", model |-> "mistral-medium",
        input_cost_per_million |-> 200, output_cost_per_million |-> 600],
       [provider |-> "mistral", model |-> "mistral-large-latest",
        input_cost_per_million |-> 200, output_cost_per_million |-> 600],
       [provider |-> "codestral", model |-> "codestral-latest",
        input_cost_per_million |-> 20, output_cost_per_million |-> 60],
       [provider |-> "codestral", model |-> "codestral-mamba-latest",
        input_cost_per_million |-> 20, output_cost_per_million |-> 60]
    >>

\* rate_limits.py: the rate limit table; model NoneStr is the provider's
\* default
RATE_LIMIT_CONFIGS ==
    <<
       [provider |-> "github-copilot", model |-> NoneStr, requests_per_minute |-> 60],
       [provider |-> "groq", model |-> NoneStr, requests_per_minute |-> 30],
       [provider |-> "groq", model |-> "llama-3.1-8b-instant", requests_per_minute |-> 30],
       [provider |-> "groq", model |-> "llama-3.1-405b-reasoning", requests_per_minute |-> 10],
       [provider |-> "deepseek", model |-> NoneStr, requests_per_minute |-> 999999],
       [provider |-> "openrouter", model |-> NoneStr, requests_per_minute |-> 100],
       [provider |-> "gemini", model |-> "gemini-2.0-flash-exp", requests_per_minute |-> 2000],
       [provider |-> "gemini", model |-> "gemini-2.0-flash-lite", requests_per_minute |-> 4000],
       [provider |-> "gemini", model |-> "gemini-1.5-flash", requests_per_minute |-> 2000],
       [provider |-> "gemini", model |-> "gemini-1.5-pro", requests_per_minute |-> 1000],
       [provider |-> "mistral", model |-> NoneStr, requests_per_minute |-> 50],
       [provider |-> "mistral", model |-> "mistral-tiny", requests_per_minute |-> 100],
       [provider |-> "mistral", model |-> "mistral-large-latest", requests_per_minute |-> 20],
       [provider |-> "codestral", model |-> NoneStr, requests_per_minute |-> 50]
    >>

\* select_model, lines 51-56
allowed_patterns ==
    {"llama-3.1-8b-instruct", "phi-3-mini-4k-instruct", "gemini-flash-1.5",
     "deepseek-chat:free"}

\* select_model, lines 39-57: the free-model guard of openrouter passes
AllowListPasses(provider, model) ==
    provider = "openrouter"
    => LET model_check == Replace(model, "openrouter/", "")
       IN  \E pattern \in allowed_patterns : Contains(model_check, pattern)

\* a selector that hands the requested model through unchanged
FormatModelNameUnchanged(provider, model) == model

\* select_model, line 65 (and line 153): the provider prefix for LiteLLM
FormatModelName(provider, model) ==
    IF ~Contains(model, "/") THEN provider \o "/" \o model ELSE model

ModelSelectionResult(provider, model, reason) ==
    [kind |-> "ok", provider |-> provider, model |-> model, reason |-> reason]
SelectionError(type) ==
    [kind |-> type, provider |-> NoneStr, model |-> NoneStr, reason |-> "none"]

RECURSIVE InOrder(_)
\* the list comprehension over a catalog: the chosen indices, in catalog order
InOrder(indices) ==
    IF indices = {}
    THEN <<>>
    ELSE LET first == CHOOSE i \in indices : \A j \in indices : i <= j
         IN  <<first>> \o InOrder(indices \ {first})

\* _find_provider_for_model
FindProviderForModel(model) ==
    LET found == InOrder({i \in 1 .. Len(MODEL_CATEGORIZATION) :
                            \/ MODEL_CATEGORIZATION[i].id = model
                            \/ MODEL_CATEGORIZATION[i].model = model})
    IN  IF found # <<>>
        THEN {ModelSelectionResult(MODEL_CATEGORIZATION[found[1]].provider,
                                   model, "found provider")}
        ELSE {ModelSelectionResult("unknown", model, "model used directly")}

\* select_model, lines 77-85, with _get_provider_models
DefaultModelOfProvider(provider) ==
    LET models == InOrder({i \in 1 .. Len(MODEL_CATEGORIZATION) :
                             MODEL_CATEGORIZATION[i].provider = provider})
    IN  IF models # <<>>
        THEN {ModelSelectionResult(provider,
                                   MODEL_CATEGORIZATION[models[1]].model,
                                   "default model of provider")}
        ELSE {SelectionError("ValueError")}

\* get_recommended_category; classified is classify_task(request).task_type
get_recommended_category(request) ==
    IF Truthy(request.task_type) /\ request.task_type # "auto"
    THEN request.task_type
    ELSE request.classified

(***************************************************************************)
(* The optimization score. A score is kept as the exact fraction n / d of  *)
(* the real number the float arithmetic of the code approximates: the      *)
(* distinct scores of the catalogs lie more than 0.001 apart and equal     *)
(* fractions come from equal score components, so that rounding changes    *)
(* neither the order of two scores nor their equality.                     *)
(***************************************************************************)
Rat(n, d) == [n |-> n, d |-> d]

RECURSIVE Gcd(_, _)
Gcd(a, b) == IF b = 0 THEN a ELSE Gcd(b, a % b)

\* n / d in lowest terms
RatReduce(n, d) == LET g == Gcd(n, d) IN Rat(n \div g, d \div g)

RatAdd(a, b) == RatReduce(a.n * b.d + b.n * a.d, a.d * b.d)
RatMul(a, b) == RatReduce(a.n * b.n, a.d * b.d)

RECURSIVE RatLess(_, _)
\* a < b, by the integer parts and then the inverted remainders
RatLess(a, b) ==
    LET qa == a.n \div a.d
        qb == b.n \div b.d
        ra == a.n % a.d
        rb == b.n % b.d
    IN  IF qa # qb THEN qa < qb
        ELSE IF rb = 0 THEN FALSE
        ELSE IF ra = 0 THEN TRUE
        ELSE RatLess(Rat(b.d, rb), Rat(a.d, ra))

\* the first index of a set of indices into a table, 0 when there is none
FirstIndex(indices) ==
    IF indices = {} THEN 0 ELSE CHOOSE i \in indices : \A j \in indices : i <= j

\* benchmarks.py, get_model_benchmarks: the index of the entry, 0 for None
get_model_benchmarks(provider, model) ==
    FirstIndex({i \in 1 .. Len(BENCHMARK_SCORES) :
                  /\ BENCHMARK_SCORES[i].provider = provider
                  /\ BENCHMARK_SCORES[i].model = model})

\* pricing.py, get_model_pricing: the index of the entry, 0 for None
get_model_pricing(provider, model) ==
    FirstIndex({i \in 1 .. Len(MODEL_PRICING) :
                  /\ MODEL_PRICING[i].provider = provider
                  /\ MODEL_PRICING[i].model = model})

\* rate_limits.py, get_provider_rate_limit: the index of the entry, 0 for None
get_provider_rate_limit(provider) ==
    FirstIndex({i \in 1 .. Len(RATE_LIMIT_CONFIGS) :
                  /\ RATE_LIMIT_CONFIGS[i].provider = provider
                  /\ RATE_LIMIT_CONFIGS[i].model = NoneStr})

\* rate_limits.py, get_model_rate_limit: the model's entry, else the
\* provider's default
get_model_rate_limit(provider, model) ==
    LET config == FirstIndex({i \in 1 .. Len(RATE_LIMIT_CONFIGS) :
                                /\ RATE_LIMIT_CONFIGS[i].provider = provider
                                /\ RATE_LIMIT_CONFIGS[i].model = model})
    IN  IF config # 0 THEN config ELSE get_provider_rate_limit(provider)

RECURSIVE SortedPositions(_, _)
\* sorted(list, key=...): the positions in ascending order of their keys,
\* equal keys in the order of the list (sorted is stable)
SortedPositions(keys, positions) ==
    IF positions = {}
    THEN <<>>
    ELSE LET first == CHOOSE i \in positions :
                        \A j \in positions :
                           \/ keys[i] < keys[j]
                           \/ keys[i] = keys[j] /\ i <= j
         IN  <<first>> \o SortedPositions(keys, positions \ {first})

\* categorization.py, get_models_by_category: the models of the category
\* with the ranking and the MMLU score of their benchmark entry, sorted by
\* ranking (a model without ranking counts as 999)
get_models_by_category(category) ==
    LET models == InOrder({i \in 1 .. Len(MODEL_CATEGORIZATION) :
                             MODEL_CATEGORIZATION[i].category = category})
        enhanced ==
            [k \in 1 .. Len(models) |->
               LET model == MODEL_CATEGORIZATION[models[k]]
                   benchmarks == get_model_benchmarks(model.provider, model.model)
               IN  [provider |-> model.provider,
                    model |-> model.model,
                    category |-> model.category,
                    ranking |-> IF benchmarks # 0
                                THEN BENCHMARK_SCORES[benchmarks].ranking
                                ELSE None,
                    benchmark_score |-> IF benchmarks # 0
                                        THEN BENCHMARK_SCORES[benchmarks].mmlu
                                        ELSE None]]
        keys == [k \in 1 .. Len(models) |->
                   IF enhanced[k].ranking \notin {None, 0}
                   THEN enhanced[k].ranking ELSE 999]
        order == SortedPositions(keys, 1 .. Len(models))
    IN  [k \in 1 .. Len(models) |-> enhanced[order[k]]]

\* _calculate_optimization_score: the weighted sum of the six components
calculate_optimization_score(provider, model) ==
    LET benchmarks == get_model_benchmarks(provider, model)
        pricing == get_model_pricing(provider, model)
        rate_limit == get_model_rate_limit(provider, model)
        weights == <<Rat(3, 10), Rat(2, 10), Rat(2, 10), Rat(1, 10),
                     Rat(1, 10), Rat(1, 10)>>
        \* ranking = benchmarks.ranking or 10
        ranking == IF BENCHMARK_SCORES[benchmarks].ranking # 0
                   THEN BENCHMARK_SCORES[benchmarks].ranking ELSE 10
        \* avg_cost + 1.0, in two-hundredths of a dollar
        cost == MODEL_PRICING[pricing].input_cost_per_million
                  + MODEL_PRICING[pricing].output_cost_per_million + 200
        score_components ==
            << IF benchmarks # 0 THEN Rat(1, ranking) ELSE Rat(0, 1),
               IF benchmarks # 0 /\ BENCHMARK_SCORES[benchmarks].mmlu # 0
               THEN RatReduce(BENCHMARK_SCORES[benchmarks].mmlu, 100)
               ELSE Rat(0, 1),
               \* np.clip(rpm / 1000.0, 0.0, 1.0)
               IF rate_limit # 0
               THEN RatReduce(
                      Max(0, Min(RATE_LIMIT_CONFIGS[rate_limit].requests_per_minute,
                                 1000)),
                      1000)
               ELSE Rat(0, 1),
               Rat(1, 2),
               Rat(1, 2),
               IF pricing # 0 THEN RatReduce(200, cost) ELSE Rat(0, 1) >>
        Term(i) == RatMul(score_components[i], weights[i])
    IN  RatAdd(RatAdd(RatAdd(RatAdd(RatAdd(Term(1), Term(2)), Term(3)),
                             Term(4)), Term(5)), Term(6))

\* _select_model_by_task_type, lines 134-143: the scores of the candidates
Scores(category_models) ==
    [i \in 1 .. Len(category_models) |->
       calculate_optimization_score(category_models[i].provider,
                                    category_models[i].model)]

\* a ranking that is not reversed: its head is a candidate of least score
SortedIndicesAscending(scores) ==
    {i \in 1 .. Len(scores) :
       \A j \in 1 .. Len(scores) : ~RatLess(scores[j], scores[i])}

\* _select_model_by_task_type, lines 146-147: the values sorted_indices[0]
\* may have. np.argsort sorts ascending with the kind 'quicksort', which is
\* not stable, so the last index of its result, the first after [::-1], is
\* any index of a greatest score.
SortedIndices(scores) ==
    {i \in 1 .. Len(scores) :
       \A j \in 1 .. Len(scores) : ~RatLess(scores[i], scores[j])}

\* _select_model_by_task_type, lines 151-158: the result for the head of the
\* ranking
BestModelResult(best_model) ==
    ModelSelectionResult(best_model.provider,
                         FormatModelName(best_model.provider, best_model.model),
                         "optimization score")

\* _select_model_by_task_type: the results the call may have
SelectModelByTaskType(task_type) ==
    LET category_models == get_models_by_category(task_type)
        fallback_order ==
            InOrder({i \in 1 .. Len(BENCHMARK_SCORES) :
                       BENCHMARK_SCORES[i].category = task_type})
        \* sorted(..., key=ranking)[0]: the first entry of the least ranking
        Ranked(i) == \A j \in 1 .. Len(fallback_order) :
                        \/ BENCHMARK_SCORES[fallback_order[i]].ranking
                             < BENCHMARK_SCORES[fallback_order[j]].ranking
                        \/ /\ BENCHMARK_SCORES[fallback_order[i]].ranking
                               = BENCHMARK_SCORES[fallback_order[j]].ranking
                           /\ i <= j
    IN  IF category_models = <<>>
        THEN IF fallback_order # <<>>
             THEN {ModelSelectionResult(BENCHMARK_SCORES[fallback_order[i]].provider,
                                        BENCHMARK_SCORES[fallback_order[i]].model,
                                        "benchmark fallback order") :
                     i \in {i \in 1 .. Len(fallback_order) : Ranked(i)}}
             ELSE {SelectionError("ValueError")}
        ELSE {BestModelResult(category_models[i]) :
                i \in SortedIndices(Scores(category_models))}

\* select_model, line 88:
\* task_type = request.task_type or get_recommended_category(request)
ResolveTaskType(request) ==
    IF Truthy(request.task_type)
    THEN request.task_type
    ELSE get_recommended_category(request)

\* select_model: the results the call may have
select_model(request) ==
    IF Truthy(request.provider) /\ Truthy(request.model)
    THEN IF ~AllowListPasses(request.provider, request.model)
         THEN {SelectionError("ValueError")}
         ELSE {ModelSelectionResult(
                   request.provider,
                   FormatModelName(request.provider, request.model),
                   "explicitly specified")}
    ELSE IF Truthy(request.model)
    THEN FindProviderForModel(request.model)
    ELSE IF Truthy(request.provider)
    THEN DefaultModelOfProvider(request.provider)
    ELSE SelectModelByTaskType(ResolveTaskType(request))

\* the requests of the model
RequestProviders ==
    {NoneStr, "", "groq", "openrouter", "gemini", "github-copilot", "acme"}
RequestModels ==
    {NoneStr, "", "gpt-4", "openrouter/gpt-4", "llama-3.1-8b-instant",
     "meta-llama/llama-3.1-8b-instruct",
     "openrouter/meta-llama/llama-3.1-8b-instruct",
     "deepseek/deepseek-chat:free", "gemini-flash-1.5", "gemini-2.0-flash",
     "llama-4-maverick", "openai/gpt-4o", "openrouter/"}
RequestTaskTypes == {NoneStr, "fast", "powerful", "auto", "cheap"}
Requests ==
    [provider : RequestProviders, model : RequestModels,
     task_type : RequestTaskTypes, classified : {"fast", "powerful"}]

NoSelection == [kind |-> "none", provider |-> NoneStr, model |-> NoneStr,
                reason |-> "none"]

\* the values of sorted_indices[0] with which select_model returns r: a
\* position in the candidates of the tier, 0 when no candidate is scored
BestModels(request, r) ==
    IF Truthy(request.provider) \/ Truthy(request.model)
    THEN {0}
    ELSE LET category_models == get_models_by_category(ResolveTaskType(request))
         IN  IF category_models = <<>>
             THEN {0}
             ELSE {i \in SortedIndices(Scores(category_models)) :
                     BestModelResult(category_models[i]) = r}

\* await selector.select_model(request)
SelectModelStep ==
    /\ sel.pc = "request"
    /\ \E r \in select_model(sel.request) :
          \E best \in BestModels(sel.request, r) :
             sel' = [sel EXCEPT
                       !.pc = "done",
                       !.result = r,
                       !.best = best,
                       !.task_type =
                           IF Truthy(sel.request.provider)
                              \/ Truthy(sel.request.model)
                           THEN NoneStr
                           ELSE ResolveTaskType(sel.request)]

SelectModel ==
    SelectModelStep /\ UNCHANGED <<now, breakerVars, rt, chat, hc, app, cls, obs>>

InitSelect ==
    /\ now = 0
    /\ BreakerOff
    /\ sel \in [pc : {"request"}, request : Requests, result : {NoSelection},
                 task_type : {NoneStr}, best : {0}]
    /\ rt = RtOff /\ chat = ChatOff /\ hc = HcOff /\ app = AppOff /\ cls = ClsOff
    /\ obs = ObsOff

NextSelect == SelectModel

\* one select_model call on any request, the catalogs fixed
SpecSelect == InitSelect /\ [][NextSelect]_vars

\* the call is over and was for an explicit provider and model that passed
\* the allow-list guard
ExplicitSelected ==
    /\ sel.pc = "done"
    /\ Truthy(sel.request.provider)
    /\ Truthy(sel.request.model)
    /\ sel.result.kind = "ok"

\* C10 as stated: for an explicit provider and model that pass the allow-list
\* guard, the result's provider and model are exactly the requested ones.
C10_PairUnchanged ==
    ExplicitSelected
    => (/\ sel.result.provider = sel.request.provider
        /\ sel.result.model = sel.request.model)

\* C10 amended: the result's provider is the requested provider, and its
\* model is the requested model when that contains "/" and otherwise the
\* requested model prefixed with the provider and "/".
C10_PairFormatted ==
    ExplicitSelected
    => (/\ sel.result.provider = sel.request.provider
        /\ (\E i \in 1 .. Len(sel.request.model) :
               SubSeq(sel.request.model, i, i) = "/")
           => sel.result.model = sel.request.model
        /\ (\A i \in 1 .. Len(sel.request.model) :
               SubSeq(sel.request.model, i, i) # "/")
           => sel.result.model
                = sel.request.provider \o "/" \o sel.request.model)

\* an explicit request whose model got the provider prefix, and one whose
\* model came back unchanged after passing the openrouter guard
C10_Witness ==
    /\ ExplicitSelected
    /\ \/ /\ sel.request.provider = "groq"
          /\ sel.request.model = "llama-3.1-8b-instant"
          /\ sel.result.model = "groq/llama-3.1-8b-instant"
       \/ /\ sel.request.provider = "openrouter"
          /\ sel.request.model = "meta-llama/llama-3.1-8b-instruct"
          /\ sel.result.model = "meta-llama/llama-3.1-8b-instruct"

\* the call is over and was for provider "openrouter" with a model given
OpenRouterSelected ==
    /\ sel.pc = "done"
    /\ sel.request.provider = "openrouter"
    /\ Truthy(sel.request.model)

\* C11: select_model for provider "openrouter" and a model that matches none
\* of the allow-list patterns fails with ValidationError and gives no
\* selection; with a model that matches a pattern it succeeds.
C11_GuardRaisesValidationError ==
    OpenRouterSelected
    => IF AllowListPasses("openrouter", sel.request.model)
       THEN sel.result.kind = "ok"
       ELSE /\ sel.result.kind = "ValidationError"
            /\ sel.result.provider = NoneStr
            /\ sel.result.model = NoneStr

\* the call is over and was for a request with neither provider nor model,
\* whose tier is absent, "auto", "fast" or "powerful"
TierSelected ==
    /\ sel.pc = "done"
    /\ ~Truthy(sel.request.provider)
    /\ ~Truthy(sel.request.model)
    /\ sel.request.task_type \in {NoneStr, "auto", "fast", "powerful"}

\* C12: for a request with neither provider nor model, the tier whose
\* candidates select_model fetches and scores is "fast" or "powerful": the
\* classifier's tier when the request's tier is absent or "auto", the
\* request's tier verbatim when it is "fast" or "powerful".
C12_TierResolved ==
    TierSelected
    => (/\ sel.task_type \in {"fast", "powerful"}
        /\ sel.request.task_type \in {NoneStr, "auto"}
           => sel.task_type = sel.request.classified
        /\ sel.request.task_type \in {"fast", "powerful"}
           => sel.task_type = sel.request.task_type)

\* the call is over and has scored the candidates of a tier
TierScored ==
    /\ sel.pc = "done"
    /\ sel.best # 0

MaxRequests == 2

\* LiteLLMClient.__init__: the client's CircuitBreaker("litellm", ...), with
\* the providers its calls were made for
NewCircuitBreaker == [name |-> "litellm", stats |-> CircuitBreakerStats,
                      served |-> {}]

AppIdle ==
    [pc |-> "on", n |-> 0, breakers |-> <<>>, requests |-> <<>>, pauses |-> 0,
     failed |-> [p \in Providers |-> 0]]

\* a request arrives: Depends(get_litellm_client) builds a LiteLLMClient, and
\* with it a circuit breaker; the selector resolves provider p. The requests
\* in flight are tasks of one event loop: request i holds client i
AppRequestStep(p) ==
    /\ app.pc = "on"
    /\ app.n < MaxRequests
    /\ app' = [app EXCEPT !.n = app.n + 1,
                          !.breakers = Append(app.breakers, NewCircuitBreaker),
                          !.requests = Append(app.requests,
                                              [pc |-> "attempt", provider |-> p,
                                               attempt |-> 0, wake |-> 0])]
    /\ now' = now

\* chat() of request i after a failed attempt: ProviderError is raised and
\* the retry decorator either sleeps or lets it through
AppAfterFailure(i, attempt) ==
    LET d == retry_with_backoff(ChatRetry(attempt),
                                [type |-> "ProviderError", id |-> attempt])
    IN  IF d.do = "sleep"
        THEN [app.requests[i] EXCEPT !.pc = "sleep", !.attempt = attempt,
                                     !.wake = now + d.delay]
        ELSE [app.requests[i] EXCEPT !.pc = "done", !.attempt = attempt]

\* an attempt of litellm_client.chat for request i enters
\* circuit_breaker.call on the client's breaker: the state check, then the
\* rejection or the provider call, which is awaited
AppAttemptStep(i) ==
    /\ app.pc = "on"
    /\ i \in DOMAIN app.requests
    /\ app.requests[i].pc = "attempt"
    /\ LET b == app.breakers[i]
           p == app.requests[i].provider
           st == CheckStateTransition(b.stats, ChatBreakerConfig, now)
           attempt == app.requests[i].attempt + 1
       IN  app' = [app EXCEPT
                     !.breakers[i] = [b EXCEPT !.stats = st,
                                               !.served = b.served \cup {p}],
                     !.requests[i] =
                         IF st.state = OPEN
                         THEN AppAfterFailure(i, attempt)
                         ELSE [app.requests[i] EXCEPT !.pc = "in_fn",
                                                      !.attempt = attempt]]
    /\ now' = now

\* the provider call of request i is over: _execute_chat returns (ok) or
\* raises, the breaker records it, and the retry decorator decides
AppExecuteStep(i, ok) ==
    /\ app.pc = "on"
    /\ i \in DOMAIN app.requests
    /\ app.requests[i].pc = "in_fn"
    /\ LET b == app.breakers[i]
           p == app.requests[i].provider
       IN  IF ok
           THEN app' = [app EXCEPT
                          !.breakers[i].stats =
                              RecordSuccess(b.stats, ChatBreakerConfig),
                          !.requests[i].pc = "done",
                          !.failed[p] = 0]
           ELSE app' = [app EXCEPT
                          !.breakers[i].stats =
                              RecordFailure(b.stats, ChatBreakerConfig, now),
                          !.requests[i] =
                              AppAfterFailure(i, app.requests[i].attempt),
                          !.failed[p] = app.failed[p] + 1]
    /\ now' = now

\* the backoff sleep of request i is over: the delay has passed, if it had
\* not already
AppWakeStep(i) ==
    /\ app.pc = "on"
    /\ i \in DOMAIN app.requests
    /\ app.requests[i].pc = "sleep"
    /\ now' = Max(now, app.requests[i].wake)
    /\ app' = [app EXCEPT !.requests[i].pc = "attempt"]

\* datetime.now() is later than it was: time passes while provider calls
\* are awaited, while requests sleep or while none is being served
AppPauseStep ==
    /\ app.pc = "on"
    /\ app.pauses < MaxPauses
    /\ \E d \in 1 .. MaxTime : now' = now + d
    /\ app' = [app EXCEPT !.pauses = app.pauses + 1]

AppRequest(p) == AppRequestStep(p) /\ UNCHANGED <<breakerVars, rt, chat, hc, sel, cls, obs>>
AppAttempt(i) == AppAttemptStep(i) /\ UNCHANGED <<breakerVars, rt, chat, hc, sel, cls, obs>>
AppExecute(i, ok) ==
    AppExecuteStep(i, ok) /\ UNCHANGED <<breakerVars, rt, chat, hc, sel, cls, obs>>
AppWake(i) == AppWakeStep(i) /\ UNCHANGED <<breakerVars, rt, chat, hc, sel, cls, obs>>
AppPause == AppPauseStep /\ UNCHANGED <<breakerVars, rt, chat, hc, sel, cls, obs>>

InitApp ==
    /\ now = 0
    /\ BreakerOff
    /\ app = AppIdle
    /\ rt = RtOff /\ chat = ChatOff /\ hc = HcOff /\ sel = SelOff
    /\ cls = ClsOff
    /\ obs = ObsOff

NextApp ==
    \/ \E p \in Providers : AppRequest(p)
    \/ \E i \in 1 .. MaxRequests :
          \/ AppAttempt(i)
          \/ \E ok \in BOOLEAN : AppExecute(i, ok)
          \/ AppWake(i)
    \/ AppPause

\* the requests of one process, served concurrently by one event loop
SpecApp == InitApp /\ [][NextApp]_vars

\* C14: there is one breaker per provider for the whole life of the process:
\* no two breakers have served the same provider, and the breaker consulted
\* for a request shows the failures recorded for its provider by the earlier
\* requests.
C14_OneBreakerPerProvider ==
    app.pc # "off"
    => (/\ \A i \in DOMAIN app.breakers, j \in DOMAIN app.breakers :
              app.breakers[i].served \cap app.breakers[j].served # {} => i = j
        /\ \A i \in DOMAIN app.requests :
              (app.requests[i].pc = "attempt" /\ app.requests[i].attempt = 0)
              => app.breakers[i].stats.failures
                   = app.failed[app.requests[i].provider])

(***************************************************************************)
(* Python floats (IEEE 754 binary64) of the classifier                     *)
(* A float in [0, 2) is the integer hi * 2^28 + lo in units of 2^-57; all  *)
(* floats of the classifier are multiples of that unit.                    *)
(***************************************************************************)
FloatBase == 2 ^ 28
Float(hi, lo) == [hi |-> hi, lo |-> lo]

\* the float literals of task_classifier.py
Float0_0 == Float(0, 0)
Float0_5 == Float(2 ^ 28, 0)
Float1_0 == Float(2 ^ 29, 0)
\* 0.1 = 0x1.999999999999ap-4, 0.2 = 0x1.999999999999ap-3,
\* 0.3 = 0x1.3333333333333p-2; 0.4 = 0x1.999999999999ap-2 is the sum
\* 0.2 + 0.1 + 0.1 as calculate_fast_score computes it
Float0_1 == Float(53687091, 53687092)
Float0_2 == Float(107374182, 107374184)
Float0_3 == Float(161061273, 161061272)
Float0_4 == Float(214748364, 214748368)

FloatNormalize(hi, lo) == Float(hi + lo \div FloatBase, lo % FloatBase)

\* the spacing of the doubles around x, in units of 2^-57 (53-bit mantissa)
FloatSpacing(x) ==
    IF x.hi >= 2 ^ 30 THEN 64
    ELSE IF x.hi >= 2 ^ 29 THEN 32
    ELSE IF x.hi >= 2 ^ 28 THEN 16
    ELSE IF x.hi >= 2 ^ 27 THEN 8
    ELSE IF x.hi >= 2 ^ 26 THEN 4
    ELSE IF x.hi >= 2 ^ 25 THEN 2
    ELSE 1

\* round to nearest, ties to even
FloatRound(x) ==
    LET g == FloatSpacing(x)
        r == x.lo % g
        down == x.lo - r
        up == \/ 2 * r > g
              \/ 2 * r = g /\ (x.lo \div g) % 2 = 1
    IN  FloatNormalize(x.hi, IF up THEN down + g ELSE down)

\* a < b
FloatLess(a, b) == a.hi < b.hi \/ (a.hi = b.hi /\ a.lo < b.lo)

\* a + b
FloatAdd(a, b) == FloatRound(FloatNormalize(a.hi + b.hi, a.lo + b.lo))

\* a - b, for a >= b
FloatSub(a, b) ==
    FloatRound(IF a.lo >= b.lo
               THEN Float(a.hi - b.hi, a.lo - b.lo)
               ELSE Float(a.hi - b.hi - 1, a.lo + FloatBase - b.lo))

\* abs(a - b)
FloatAbsDiff(a, b) == IF FloatLess(a, b) THEN FloatSub(b, a) ELSE FloatSub(a, b)

\* max(a, b)
FloatMax(a, b) == IF FloatLess(a, b) THEN b ELSE a

\* f * w for f one of 0.0, 0.5, 1.0: exact
FloatMul(f, w) ==
    IF f = Float1_0 THEN w
    ELSE IF f = Float0_5
         THEN Float(w.hi \div 2, (w.lo + (w.hi % 2) * FloatBase) \div 2)
         ELSE Float0_0

(***************************************************************************)
(* Task classifier                                                         *)
(***************************************************************************)
\* the TaskComplexity values analyze_complexity can return: time_sensitivity
\* starts at 'medium' and is only ever raised, and a 'simple' request has at
\* most two messages of average length 500, hence not more than 1000
\* characters of 'high' token intensity
TaskComplexity ==
    {c \in [complexity : {"simple", "moderate", "complex"},
            token_intensity : {"low", "medium", "high"},
            criticality : {"non-critical", "important", "critical"},
            time_sensitivity : {"medium", "high"}] :
        ~(c.complexity = "simple" /\ c.token_intensity = "high")}

\* 1.0 if level == top else (0.5 if level == middle else 0.0)
Graded(level, top, middle) ==
    IF level = top THEN Float1_0
    ELSE IF level = middle THEN Float0_5 ELSE Float0_0

\* calculate_factors, lines 210-218
calculate_factors(complexity, has_complex_keywords, has_system_message, has_code_blocks) ==
    [complexity |-> Graded(complexity.complexity, "complex", "moderate"),
     tokenIntensity |-> Graded(complexity.token_intensity, "high", "medium"),
     criticality |-> Graded(complexity.criticality, "critical", "important"),
     timeSensitivity |-> Graded(complexity.time_sensitivity, "high", "medium"),
     keywordMatch |-> IF has_complex_keywords THEN Float1_0 ELSE Float0_0,
     systemMessage |-> IF has_system_message THEN Float1_0 ELSE Float0_0,
     codeBlocks |-> IF has_code_blocks THEN Float1_0 ELSE Float0_0]

\* calculate_fast_score: the sum, left to right
calculate_fast_score(factors) ==
    FloatAdd(
      FloatAdd(
        FloatAdd(
          FloatAdd(FloatMul(factors.tokenIntensity, Float0_3),
                   FloatMul(FloatSub(Float1_0, factors.complexity), Float0_2)),
          FloatMul(FloatSub(Float1_0, factors.criticality), Float0_1)),
        FloatMul(factors.timeSensitivity, Float0_2)),
      FloatMul(factors.codeBlocks, Float0_2))

\* calculate_powerful_score: the sum, left to right
calculate_powerful_score(factors) ==
    FloatAdd(
      FloatAdd(
        FloatAdd(
          FloatAdd(FloatMul(factors.complexity, Float0_3),
                   FloatMul(factors.criticality, Float0_2)),
          FloatMul(factors.keywordMatch, Float0_2)),
        FloatMul(factors.systemMessage, Float0_2)),
      IF FloatLess(Float0_5, factors.complexity) THEN Float0_1 ELSE Float0_0)

\* a confidence is the quotient num / den of two floats, before the rounding
\* of the division (which is monotone and keeps 0.0 and 1.0)
Quotient(num, den) == [num |-> num, den |-> den]

\* a classifier for which equal scores give 'fast'
classify_task_ties_fast(factors) ==
    LET fast_score == calculate_fast_score(factors)
        powerful_score == calculate_powerful_score(factors)
        top == FloatMax(fast_score, powerful_score)
        confidence == IF FloatLess(Float0_0, top)
                      THEN Quotient(FloatAbsDiff(fast_score, powerful_score), top)
                      ELSE Quotient(Float0_0, Float1_0)
    IN  [task_type |-> IF ~FloatLess(fast_score, powerful_score)
                       THEN "fast" ELSE "powerful",
         confidence |-> IF FloatLess(confidence.den, confidence.num)
                        THEN Quotient(Float1_0, Float1_0) ELSE confidence,
         factors |-> factors]

\* classify_task, lines 59-70, on the factors of the request
classify_task(factors) ==
    LET fast_score == calculate_fast_score(factors)
        powerful_score == calculate_powerful_score(factors)
        top == FloatMax(fast_score, powerful_score)
        confidence == IF FloatLess(Float0_0, top)
                      THEN Quotient(FloatAbsDiff(fast_score, powerful_score), top)
                      ELSE Quotient(Float0_0, Float1_0)
    IN  [task_type |-> IF FloatLess(powerful_score, fast_score)
                       THEN "fast" ELSE "powerful",
         \* min(confidence, 1.0)
         confidence |-> IF FloatLess(confidence.den, confidence.num)
                        THEN Quotient(Float1_0, Float1_0) ELSE confidence,
         factors |-> factors]

NoClassification == [task_type |-> "none", confidence |-> Quotient(Float0_0, Float1_0)]

\* the requests, as analyze_complexity and calculate_factors see them
ClassifierRequests ==
    [pc : {"request"},
     complexity : TaskComplexity,
     has_complex_keywords : BOOLEAN,
     has_system_message : BOOLEAN,
     has_code_blocks : BOOLEAN,
     fast_score : {Float0_0},
     powerful_score : {Float0_0},
     classification : {NoClassification}]

\* classify_task(request)
ClassifyTaskStep ==
    /\ cls.pc = "request"
    /\ LET factors == calculate_factors(cls.complexity,
                                        cls.has_complex_keywords,
                                        cls.has_system_message,
                                        cls.has_code_blocks)
           c == classify_task(factors)
       IN  cls' = [cls EXCEPT
                     !.pc = "done",
                     !.fast_score = calculate_fast_score(factors),
                     !.powerful_score = calculate_powerful_score(factors),
                     !.classification = [task_type |-> c.task_type,
                                         confidence |-> c.confidence]]

ClassifyTask ==
    ClassifyTaskStep
    /\ UNCHANGED <<now, breakerVars, rt, chat, hc, sel, app, obs>>

InitClassify ==
    /\ now = 0
    /\ BreakerOff
    /\ cls \in ClassifierRequests
    /\ rt = RtOff /\ chat = ChatOff /\ hc = HcOff /\ sel = SelOff
    /\ app = AppOff /\ obs = ObsOff

NextClassify == ClassifyTask

\* one classify_task call on any request
SpecClassify == InitClassify /\ [][NextClassify]_vars

\* the factors of the classified request
ClassifiedFactors ==
    calculate_factors(cls.complexity, cls.has_complex_keywords,
                      cls.has_system_message, cls.has_code_blocks)

\* every factor but timeSensitivity is 0.0, and timeSensitivity is 0.5
OnlyTimeSensitivity ==
    ClassifiedFactors =
        [complexity |-> Float0_0, tokenIntensity |-> Float0_0,
         criticality |-> Float0_0, timeSensitivity |-> Float0_5,
         keywordMatch |-> Float0_0, systemMessage |-> Float0_0,
         codeBlocks |-> Float0_0]

\* C18: classify_task gives "fast" exactly when the fast score it computed
\* is greater than the powerful score it computed, "powerful" otherwise
\* (equal scores included); the confidence is |fast - powerful| over
\* max(fast, powerful), between 0 and 1; a request whose only non-zero
\* factor is timeSensitivity = 0.5 has fast score 0.4, powerful score 0,
\* tier "fast" and confidence 1.
C18_TierAndConfidence ==
    cls.pc = "done"
    => LET c == cls.classification
       IN  /\ c.task_type = "fast"
              <=> FloatLess(cls.powerful_score, cls.fast_score)
           /\ c.task_type = "powerful"
              <=> ~FloatLess(cls.powerful_score, cls.fast_score)
           /\ ~FloatLess(c.confidence.num, Float0_0)
           /\ ~FloatLess(c.confidence.den, c.confidence.num)
           /\ FloatLess(Float0_0, c.confidence.den)
           /\ FloatLess(cls.fast_score, cls.powerful_score)
              => /\ c.confidence.den = cls.powerful_score
                 /\ c.confidence.num
                      = FloatSub(cls.powerful_score, cls.fast_score)
           /\ ~FloatLess(cls.fast_score, cls.powerful_score)
              => /\ c.confidence.den = cls.fast_score
                 /\ c.confidence.num
                      = FloatSub(cls.fast_score, cls.powerful_score)
           /\ OnlyTimeSensitivity
              => /\ cls.fast_score = Float0_4
                 /\ cls.powerful_score = Float0_0
                 /\ c.task_type = "fast"
                 /\ c.confidence.num = c.confidence.den

\* the classified request whose only non-zero factor is timeSensitivity = 0.5
C18_Witness ==
    /\ cls.pc = "done"
    /\ OnlyTimeSensitivity
    /\ cls.complexity.time_sensitivity = "medium"
    /\ cls.classification.task_type = "fast"
    /\ cls.fast_score = Float0_4

(***************************************************************************)
(* Circuit breaker: get_state() and is_open() between the calls            *)
(***************************************************************************)
NoObservation == [op |-> "none", value |-> "none", at |-> 0]

\* get_state(): returns self.stats.state, takes no lock
GetStateStep ==
    /\ obs' = [op |-> "get_state", value |-> get_state, at |-> now]
    /\ obs' # obs
    /\ UNCHANGED <<now, breakerVars>>

\* is_open(): returns self.stats.state == CircuitState.OPEN, takes no lock
IsOpenStep ==
    /\ obs' = [op |-> "is_open", value |-> is_open, at |-> now]
    /\ obs' # obs
    /\ UNCHANGED <<now, breakerVars>>

GetState == GetStateStep /\ UNCHANGED <<rt, chat, hc, sel, app, cls>>
IsOpen == IsOpenStep /\ UNCHANGED <<rt, chat, hc, sel, app, cls>>

InitObserve ==
    /\ now = 0
    /\ BreakerInit({1})
    /\ obs = NoObservation
    /\ rt = RtOff /\ chat = ChatOff /\ hc = HcOff /\ sel = SelOff
    /\ app = AppOff /\ cls = ClsOff

NextObserve ==
    \/ \E c \in callers :
          \/ CallAcquire(c)
          \/ CallCheck(c)
          \/ FnReturn(c)
          \/ FnRaise(c)
          \/ FnRaiseOther(c)
          \/ RecordSuccessDone(c)
          \/ RecordFailureDone(c)
    \/ Tick
    \/ GetState
    \/ IsOpen

\* sequential calls on one breaker, its state read at any time
SpecObserve == InitObserve /\ [][NextObserve]_vars

(***************************************************************************)
(* analyze_complexity                                                      *)
(***************************************************************************)
MaxMessages == 2

\* the cased letters of the characters a string of the model can hold
\* (ASCII and Latin-1), and what str.lower() makes of each
UpperCase == "ABCDEFGHIJKLMNOPQRSTUVWXYZÀÁÂÃÄÅÆÇÈÉÊËÌÍÎÏÐÑÒÓÔÕÖØÙÚÛÜÝÞ"
LowerCase == "abcdefghijklmnopqrstuvwxyzàáâãäåæçèéêëìíîïðñòóôõöøùúûüýþ"

\* the characters \w matches in a str pattern: letters, digits, numeric
\* characters and the underscore
WordChars ==
    UpperCase \o LowerCase \o "0123456789_" \o "ª²³µ¹º¼½¾ßÿ"

RECURSIVE Lower(_)
\* s.lower()
Lower(s) ==
    IF s = ""
    THEN ""
    ELSE LET c == SubSeq(s, 1, 1)
             at == {k \in 1 .. Len(UpperCase) : SubSeq(UpperCase, k, k) = c}
         IN  (IF at = {}
              THEN c
              ELSE LET k == CHOOSE k \in at : TRUE IN SubSeq(LowerCase, k, k))
               \o Lower(SubSeq(s, 2, Len(s)))

RECURSIVE Runs(_, _, _)
\* the maximal runs of s without a character of seps, after the run begun
Runs(s, seps, run) ==
    LET done == IF run = "" THEN {} ELSE {run}
    IN  IF s = ""
        THEN done
        ELSE IF Contains(seps, SubSeq(s, 1, 1))
             THEN done \cup Runs(SubSeq(s, 2, Len(s)), seps, "")
             ELSE Runs(SubSeq(s, 2, Len(s)), seps, run \o SubSeq(s, 1, 1))

\* the texts of the tokens of nlp(text): the tokenizer splits at white space
\* and splits punctuation off, never inside a run of letters
Tokens(text) == Runs(text, " ,.!?", "")

RECURSIVE RunsOf(_, _, _)
\* the maximal runs of s made of characters of chars, after the run begun
RunsOf(s, chars, run) ==
    LET done == IF run = "" THEN {} ELSE {run}
    IN  IF s = ""
        THEN done
        ELSE IF Contains(chars, SubSeq(s, 1, 1))
             THEN RunsOf(SubSeq(s, 2, Len(s)), chars, run \o SubSeq(s, 1, 1))
             ELSE done \cup RunsOf(SubSeq(s, 2, Len(s)), chars, "")

\* the words a pattern \b(...)\b can match: the maximal runs of word
\* characters, a \b lying at each of their ends
Words(text) == RunsOf(text, WordChars, "")

RECURSIVE Join(_)
\* " ".join(contents)
Join(contents) ==
    IF contents = <<>> THEN ""
    ELSE IF Len(contents) = 1 THEN contents[1]
    ELSE contents[1] \o " " \o Join(Tail(contents))

\* analyze_complexity, line 127 (the regex of lines 141-144 names the same)
critical_keywords ==
    {"critical", "urgent", "important", "essential", "vital", "crucial"}
\* analyze_complexity, line 152
time_keywords == {"urgent", "asap", "immediately", "quick", "fast", "now"}

\* any(keyword.lower() in token.text.lower() for keyword in keywords
\*     for token in doc)
AnyTokenContains(text, keywords) ==
    \E keyword \in keywords :
       \E token \in Tokens(text) : Contains(Lower(token), Lower(keyword))

\* re.compile(r'\b(k1|k2|...)\b', re.IGNORECASE).search(text)
PatternSearch(text, keywords) ==
    \E word \in Words(text) : Lower(word) \in keywords

\* what the code reads off nlp(combined_text) besides the token texts
Docs ==
    {doc \in [avg_sentence_length : {10, 20, 30},
              entity_count : {0, 3, 4, 5, 6},
              important_entities : {0, 4}] :
        doc.important_entities <= doc.entity_count}

\* analyze_complexity, on the contents of request.messages; nlp is whether
\* get_nlp() returns a pipeline, doc what it makes of the combined text
analyze_complexity(contents, nlp, doc) ==
    LET combined_text == Join(contents)
        total_length == Len(combined_text)
        \* avg_length > k, for avg_length = total_length / len(messages)
        AvgLengthOver(k) == contents # <<>> /\ total_length > k * Len(contents)
        MaxLengthOver(k) == \E i \in 1 .. Len(contents) : Len(contents[i]) > k
        use_nlp == nlp /\ combined_text # ""
        complexity ==
            IF use_nlp
            THEN IF \/ MaxLengthOver(2000) \/ Len(contents) > 5
                    \/ doc.avg_sentence_length > 25 \/ doc.entity_count > 5
                 THEN "complex"
                 ELSE IF \/ AvgLengthOver(500) \/ Len(contents) > 2
                         \/ doc.avg_sentence_length > 15 \/ doc.entity_count > 2
                      THEN "moderate"
                      ELSE "simple"
            ELSE IF MaxLengthOver(2000) \/ Len(contents) > 5
                 THEN "complex"
                 ELSE IF AvgLengthOver(500) \/ Len(contents) > 2
                      THEN "moderate"
                      ELSE "simple"
        token_intensity ==
            IF total_length > 5000 THEN "high"
            ELSE IF total_length > 1000 THEN "medium" ELSE "low"
        criticality ==
            IF use_nlp
            THEN LET has_critical_keywords ==
                         AnyTokenContains(combined_text, critical_keywords)
                     has_important_entities == doc.important_entities > 3
                 IN  IF has_critical_keywords THEN "critical"
                     ELSE IF has_important_entities THEN "important"
                     ELSE "non-critical"
            ELSE IF PatternSearch(combined_text, critical_keywords)
                 THEN "critical" ELSE "non-critical"
        time_sensitivity ==
            IF use_nlp /\ AnyTokenContains(combined_text, time_keywords)
            THEN "high" ELSE "medium"
    IN  [complexity |-> complexity, token_intensity |-> token_intensity,
         criticality |-> criticality, time_sensitivity |-> time_sensitivity]

\* the message contents of the model: not empty, as the schema demands
Contents ==
    {"hello there", "this is URGENT", "reply asap", "what do you know",
     "a Vital fix", "be quick, please", "an important plan",
     "(urgent)", "non-critical", "not vitally"}

RECURSIVE Lists(_, _)
\* the lists of 1 to n elements of a set
Lists(S, n) ==
    IF n = 0 THEN {}
    ELSE {<<x>> : x \in S}
           \cup {Append(l, x) : l \in Lists(S, n - 1), x \in S}

NoComplexity ==
    [complexity |-> "none", token_intensity |-> "none",
     criticality |-> "none", time_sensitivity |-> "none"]

AnalyzeRequests ==
    [pc : {"analyze"}, contents : Lists(Contents, MaxMessages),
     nlp : BOOLEAN, complexity : {NoComplexity}]

\* complexity = analyze_complexity(request)
AnalyzeComplexityStep ==
    /\ cls.pc = "analyze"
    /\ \E doc \in Docs :
          cls' = [cls EXCEPT
                    !.pc = "analyzed",
                    !.complexity = analyze_complexity(cls.contents, cls.nlp, doc)]

AnalyzeComplexity ==
    AnalyzeComplexityStep
    /\ UNCHANGED <<now, breakerVars, rt, chat, hc, sel, app, obs>>

InitAnalyze ==
    /\ now = 0
    /\ BreakerOff
    /\ cls \in AnalyzeRequests
    /\ rt = RtOff /\ chat = ChatOff /\ hc = HcOff /\ sel = SelOff
    /\ app = AppOff /\ obs = ObsOff

NextAnalyze == AnalyzeComplexity

\* one analyze_complexity call on any request, with either backend
SpecAnalyze == InitAnalyze /\ [][NextAnalyze]_vars

\* the combined text of the analysed request contains a time keyword
HasTimeKeyword ==
    \E keyword \in time_keywords :
       Contains(Lower(Join(cls.contents)), keyword)

\* C22: with either backend the time sensitivity of a request is "high"
\* when its text contains an urgency keyword and "medium" otherwise, and the
\* timeSensitivity factor is 1.0 exactly for the requests with an urgency
\* keyword.
C22_TimeSensitivityBothBackends ==
    cls.pc = "analyzed"
    => LET factors == calculate_factors(cls.complexity, FALSE, FALSE, FALSE)
       IN  /\ cls.complexity.time_sensitivity
                = IF HasTimeKeyword THEN "high" ELSE "medium"
           /\ factors.timeSensitivity = Float1_0 <=> HasTimeKeyword

(***************************************************************************)
(* Circuit breaker: properties                                             *)
(***************************************************************************)
RECURSIVE Trailing(_, _)
\* how many times x ends the sequence s
Trailing(s, x) ==
    IF s = <<>> \/ s[Len(s)] # x
    THEN 0
    ELSE 1 + Trailing(SubSeq(s, 1, Len(s) - 1), x)

\* task c leaves the state check of call() in this step
Checks(c) == pc[c] = "check" /\ pc'[c] # "check"
\* task c completes _record_success / _record_failure in this step
RecordsSuccess(c) == pc[c] = "record_success" /\ pc'[c] = "idle"
RecordsFailure(c) == pc[c] = "record_failure" /\ pc'[c] = "idle"

\* C1: a call() that finds the breaker OPEN with less than `timeout` elapsed
\* since opened_at raises CircuitBreakerOpenError, does not invoke the
\* function, and leaves state, failures, successes and opened_at unchanged.
C1_OpenRejects ==
    [][\A c \in Tasks :
         (/\ Checks(c)
          /\ stats.state = OPEN
          /\ stats.opened_at # None
          /\ now - stats.opened_at < cfg.timeout)
         => (/\ result'[c] = "CircuitBreakerOpenError"
             /\ pc'[c] = "idle"
             /\ invoked' = invoked
             /\ stats' = stats)]_vars

\* a task was rejected before the timeout, after the function had run
C1_Witness ==
    \E c \in Tasks :
        /\ result[c] = "CircuitBreakerOpenError"
        /\ stats.state = OPEN
        /\ now - stats.opened_at < cfg.timeout
        /\ invoked = 1
        /\ calls >= 2

\* C2: with sequential calls on a breaker that starts CLOSED, the breaker is
\* CLOSED while fewer than failure_threshold consecutive failures (since the
\* last success) are recorded, and a failure recorded while CLOSED opens it
\* exactly when it is the failure_threshold-th consecutive one.
C2_OpensAtThreshold ==
    /\ [](stats.state = CLOSED => Trailing(log, "f") < cfg.failure_threshold)
    /\ [][\A c \in Tasks :
            (RecordsFailure(c) /\ stats.state = CLOSED)
            => (stats'.state = OPEN
                  <=> Trailing(log', "f") = cfg.failure_threshold)]_vars

\* threshold 2: the second consecutive failure has opened the breaker
C2_Witness ==
    /\ cfg.failure_threshold = 2
    /\ log = <<"f", "f">>
    /\ stats.state = OPEN
    /\ pc[1] = "idle"

\* C3: a success recorded while CLOSED resets the failure counter to 0 and
\* leaves the breaker CLOSED, and (sequential calls) the breaker leaves
\* CLOSED only on a failure that completes failure_threshold consecutive
\* failures since the last success.
C3_SuccessResets ==
    [][\A c \in Tasks :
         /\ (RecordsSuccess(c) /\ stats.state = CLOSED)
            => (stats'.failures = 0 /\ stats'.state = CLOSED)
         /\ (stats.state = CLOSED /\ stats'.state # CLOSED)
            => (/\ stats'.state = OPEN
                /\ Trailing(log', "f") >= cfg.failure_threshold)]_vars

\* threshold 2: failure, success, failure, and the breaker is still CLOSED
C3_Witness ==
    /\ cfg.failure_threshold = 2
    /\ log = <<"f", "s", "f">>
    /\ stats.state = CLOSED
    /\ stats.failures = 1
    /\ pc[1] = "idle"

\* C4: once timeout has elapsed since opened_at the next call is admitted in
\* HALF_OPEN; each success recorded in HALF_OPEN increments the success
\* counter, and the success_threshold-th consecutive one closes the breaker
\* with failures and successes both 0.
C4_HalfOpenRecovery ==
    /\ [](stats.state = HALF_OPEN
            => (/\ stats.successes = Trailing(log, "s")
                /\ stats.successes < cfg.success_threshold))
    /\ [][\A c \in Tasks :
            /\ (/\ Checks(c)
                /\ stats.state = OPEN
                /\ now - stats.opened_at >= cfg.timeout)
               => (/\ pc'[c] = "in_fn"
                   /\ invoked' = invoked + 1
                   /\ stats'.state = HALF_OPEN)
            /\ (RecordsSuccess(c) /\ stats.state = HALF_OPEN)
               => IF Trailing(log', "s") = cfg.success_threshold
                  THEN /\ stats'.state = CLOSED
                       /\ stats'.failures = 0
                       /\ stats'.successes = 0
                  ELSE /\ stats'.state = HALF_OPEN
                       /\ stats'.successes = stats.successes + 1]_vars

\* thresholds 1 and 2: failure, cooldown, two successes, and the breaker is
\* CLOSED again with both counters 0
C4_Witness ==
    /\ cfg.success_threshold = 2
    /\ log = <<"f", "s", "s">>
    /\ stats.state = CLOSED
    /\ stats.failures = 0
    /\ stats.successes = 0
    /\ stats.opened_at # None
    /\ now - stats.opened_at >= cfg.timeout

\* C5: a failure recorded while HALF_OPEN moves the breaker to OPEN at once,
\* whatever the success counter, sets opened_at to the time of the failure
\* and resets the success counter to 0.
C5_HalfOpenFailureReopens ==
    [][\A c \in Tasks :
         (RecordsFailure(c) /\ stats.state = HALF_OPEN)
         => (/\ stats'.state = OPEN
             /\ stats'.opened_at = now
             /\ stats'.successes = 0
             /\ stats'.failures = stats.failures + 1)]_vars

\* a half-open trial that had already counted a success failed and reopened
\* the breaker with a new opened_at
C5_Witness ==
    /\ cfg.success_threshold = 2
    /\ log = <<"f", "s", "f">>
    /\ stats.state = OPEN
    /\ stats.successes = 0
    /\ stats.opened_at = now
    /\ stats.opened_at >= cfg.timeout

\* C13: the lock is never held by a caller that is inside the protected
\* function; it is held only during the state check and the recording of an
\* outcome, each of which completes without waiting for anyone, so while a
\* caller is inside the function another caller at the state check is always
\* able to be admitted or rejected.
C13_FnOutsideLock ==
    /\ \A c \in callers : pc[c] = "in_fn" => lock # c
    /\ lock # 0 => pc[lock] \in {"check", "record_success", "record_failure"}
    /\ \A c \in callers, d \in callers :
          (pc[c] = "in_fn" /\ pc[d] = "check") => ENABLED CallCheck(d)

\* two callers are inside the protected function at the same time, on a
\* breaker that is not OPEN
C13_Witness ==
    /\ pc[1] = "in_fn"
    /\ pc[2] = "in_fn"
    /\ lock = 0
    /\ stats.state # OPEN
    /\ invoked >= 2

\* C17: the breaker's lock is the only lock of the breaker, retry and health
\* components. A task is at a step under the lock exactly when it holds the
\* lock, the holder's step never waits for the lock again, and a task whose
\* function is over takes the lock as soon as it is free: no state of
\* concurrent calls is a deadlock.
C17_NoDeadlock ==
    /\ \A c \in Tasks :
          lock = c <=> pc[c] \in {"check", "record_success", "record_failure"}
    /\ lock # 0 => ENABLED (\/ CallCheck(lock)
                            \/ RecordSuccessDone(lock)
                            \/ RecordFailureDone(lock))
    /\ \A c \in callers :
          (pc[c] = "in_fn" /\ lock = 0)
          => (ENABLED FnReturn(c) /\ ENABLED FnRaise(c))

\* one caller records a failure under the lock while the other caller, whose
\* function is running or over, has to wait for it
C17_Witness ==
    /\ lock = 1
    /\ pc[1] = "record_failure"
    /\ pc[2] = "in_fn"
    /\ ~ENABLED FnReturn(2)

\* C19: the breaker leaves OPEN for HALF_OPEN only in the state check of a
\* call(), and only when now - opened_at >= timeout; a call() checked before
\* that leaves it OPEN; get_state() and is_open() change no field of the
\* breaker and report the state as it is, so they report OPEN for as long as
\* no call() is attempted, also after the timeout has elapsed.
C19_LazyHalfOpen ==
    [][/\ (stats.state = OPEN /\ stats'.state # OPEN)
          => (/\ stats'.state = HALF_OPEN
              /\ \E c \in Tasks : Checks(c)
              /\ now - stats.opened_at >= cfg.timeout)
       /\ ((\E c \in Tasks : Checks(c))
           /\ stats.state = OPEN
           /\ now - stats.opened_at < cfg.timeout)
          => stats' = stats
       /\ obs' # obs
          => (/\ UNCHANGED <<cfg, stats, lock, pc, result, invoked, calls, log, trials,
                         admitted>>
              /\ obs'.at = now
              /\ obs'.op = "get_state" => obs'.value = stats.state
              /\ obs'.op = "is_open" => obs'.value = (stats.state = OPEN))
      ]_vars

\* is_open() answers True although the timeout has elapsed since opened_at:
\* no call() has been attempted since
C19_Witness ==
    /\ obs = [op |-> "is_open", value |-> TRUE, at |-> now]
    /\ stats.state = OPEN
    /\ now - stats.opened_at >= cfg.timeout
    /\ pc[1] = "idle"

\* C24: while the breaker is HALF_OPEN only a limited number of trial calls
\* is let through to the function: under any interleaving the calls admitted
\* during one HALF_OPEN episode number at most success_threshold, the
\* successes that close the breaker, whatever the number of callers.
C24_LimitedTrialCalls ==
    trials <= cfg.success_threshold

\* C25: (failure_threshold >= 1) whenever the lock is free and the breaker
\* is CLOSED, the failure counter is less than failure_threshold; failures
\* recorded while OPEN or HALF_OPEN may take the counter beyond the threshold,
\* and it is 0 again when the breaker closes.
C25_ClosedBelowThreshold ==
    /\ []((lock = 0 /\ stats.state = CLOSED)
          => stats.failures < cfg.failure_threshold)
    /\ [][\A c \in Tasks :
             (RecordsSuccess(c) /\ stats.state # CLOSED /\ stats'.state = CLOSED)
             => stats'.failures = 0]_vars

\* threshold 1: the first failure opened the breaker, a second call let
\* through before that failed while the breaker was not CLOSED (2 failures
\* counted), and a trial success has closed the breaker with the counter at 0
C25_Witness ==
    /\ cfg.failure_threshold = 1
    /\ cfg.success_threshold = 1
    /\ log = <<"f", "f", "s">>
    /\ lock = 0
    /\ stats.state = CLOSED
    /\ stats.failures = 0

\* C26: (success_threshold >= 1) whenever the lock is free, the success
\* counter is 0 if the breaker is CLOSED or OPEN and at least 0 and less than
\* success_threshold if it is HALF_OPEN; a success recorded while the breaker
\* is OPEN changes nothing.
C26_SuccessCounterRange ==
    /\ [](lock = 0
          => (/\ stats.state \in {CLOSED, OPEN} => stats.successes = 0
              /\ stats.state = HALF_OPEN
                 => (/\ 0 <= stats.successes
                     /\ stats.successes < cfg.success_threshold)))
    /\ [][\A c \in Tasks :
             (RecordsSuccess(c) /\ stats.state = OPEN) => stats' = stats]_vars

\* the first failure opened the breaker, and a call let through before that
\* has recorded its success while the breaker was OPEN
C26_Witness ==
    /\ cfg.failure_threshold = 1
    /\ log = <<"f", "s">>
    /\ lock = 0
    /\ stats.state = OPEN
    /\ stats.successes = 0
    /\ stats.failures = 1

\* C27: the outcome of a call is accounted against the state of the breaker
\* when the call finishes, not the state in which it was admitted. For a call
\* admitted while the breaker was CLOSED: its success while HALF_OPEN counts
\* as a half-open success (and closes the breaker when it reaches
\* success_threshold), its failure while HALF_OPEN reopens the breaker, and
\* its failure while OPEN only increments the failure counter, state and
\* opened_at unchanged.
C27_AccountedAtFinish ==
    [][\A c \in Tasks :
          admitted[c] = CLOSED
          => (/\ (RecordsSuccess(c) /\ stats.state = HALF_OPEN)
                 => IF stats.successes + 1 >= cfg.success_threshold
                    THEN /\ stats'.state = CLOSED
                         /\ stats'.successes = 0
                         /\ stats'.failures = 0
                    ELSE /\ stats'.state = HALF_OPEN
                         /\ stats'.successes = stats.successes + 1
              /\ (RecordsFailure(c) /\ stats.state = HALF_OPEN)
                 => (/\ stats'.state = OPEN
                     /\ stats'.opened_at = now
                     /\ stats'.failures = stats.failures + 1
                     /\ stats'.successes = 0)
              /\ (RecordsFailure(c) /\ stats.state = OPEN)
                 => (/\ stats'.state = OPEN
                     /\ stats'.opened_at = stats.opened_at
                     /\ stats'.failures = stats.failures + 1
                     /\ stats'.successes = stats.successes))]_vars

\* a call admitted while CLOSED has succeeded and closed the breaker while
\* the trial call admitted in HALF_OPEN is still inside the function
C27_Witness ==
    \E a \in Tasks, b \in Tasks :
       /\ admitted[a] = CLOSED
       /\ pc[a] = "idle"
       /\ result[a] = "ok"
       /\ admitted[b] = HALF_OPEN
       /\ pc[b] = "in_fn"
       /\ log = <<"f", "s">>
       /\ stats.state = CLOSED
       /\ stats.successes = 0
       /\ stats.failures = 0


\* the state check of a call() by task c
ChecksState(c) == pc[c] = "check" /\ pc'[c] # "check"

\* C29: the breaker cannot stay OPEN forever. Whenever the state is OPEN
\* opened_at is set, and a call() whose state check comes at least `timeout`
\* after opened_at is let through: the breaker moves to HALF_OPEN with
\* successes 0 and the function is invoked, no CircuitBreakerOpenError.
C29_OpenEndsAfterTimeout ==
    /\ [](stats.state = OPEN
          => (stats.opened_at # None /\ stats.opened_at <= now))
    /\ [][\A c \in Tasks :
            (/\ ChecksState(c)
             /\ stats.state = OPEN
             /\ now - stats.opened_at >= cfg.timeout)
            => (/\ stats'.state = HALF_OPEN
                /\ stats'.successes = 0
                /\ stats'.opened_at = stats.opened_at
                /\ pc'[c] = "in_fn"
                /\ invoked' = invoked + 1
                /\ result'[c] # "CircuitBreakerOpenError")]_vars

\* a call() has just been let through as the first trial call of a HALF_OPEN
\* episode, the timeout having elapsed since the breaker opened
C29_Witness ==
    \E c \in Tasks :
        /\ pc[c] = "in_fn"
        /\ admitted[c] = HALF_OPEN
        /\ trials = 1
        /\ stats.state = HALF_OPEN
        /\ stats.opened_at # None
        /\ now - stats.opened_at >= cfg.timeout
        /\ stats.failures >= cfg.failure_threshold


\* the operation a step of the health checker performs on provider p
HealthOp(op, p) ==
    /\ hc'.ops = hc.ops + 1
    /\ hc'.last.op = op
    /\ hc'.last.provider = p

\* provider p has an unhealthy entry in health_cache
Unhealthy(h, p) == h.cache[p].present /\ ~h.cache[p].healthy

\* C30: every probe of check_provider_health records the provider as
\* healthy, so an unhealthy entry comes from mark_unhealthy only. With an
\* unhealthy entry for p, check_provider_health(p) and get_cached_health(p)
\* return False exactly while the entry is younger than the ttl (and the
\* check is not forced); a check at age >= ttl or with force_check=True
\* returns True and overwrites the entry as healthy at the current time.
C30_UnhealthyOnlyWhileMarked ==
    /\ [](hc.pc = "on" /\ hc.last.probed
          => (/\ hc.last.ret
              /\ hc.cache[hc.last.provider].present
              /\ hc.cache[hc.last.provider].healthy))
    /\ [][\A p \in Providers :
            /\ (Unhealthy(hc', p) /\ hc'.cache[p] # hc.cache[p])
               => HealthOp("mark_unhealthy", p)
            /\ HealthOp("mark_unhealthy", p)
               => hc'.cache[p] = Entry(FALSE, now)
            /\ HealthOp("check", p)
               => (/\ (~hc'.last.ret /\ ~hc'.last.none)
                      <=> (/\ Unhealthy(hc, p)
                           /\ now - hc.cache[p].time < hc.ttl
                           /\ ~hc'.last.force)
                   /\ hc'.last.ret
                      => (hc'.last.probed
                          \/ (hc.cache[p].present /\ hc.cache[p].healthy))
                   /\ hc'.last.probed => hc'.cache[p] = Entry(TRUE, now)
                   /\ ~hc'.last.probed => hc'.cache = hc.cache)
            /\ HealthOp("get_cached", p)
               => (/\ (~hc'.last.ret /\ ~hc'.last.none)
                      <=> (Unhealthy(hc, p) /\ now - hc.cache[p].time < hc.ttl)
                   /\ hc'.cache = hc.cache)]_vars

\* an entry written by mark_unhealthy reached the age of the ttl, and an
\* unforced check_provider_health found it, probed, returned True and
\* overwrote it as healthy
C30_Witness ==
    /\ hc.pc = "on"
    /\ hc.ttl > 0
    /\ hc.last.op = "check"
    /\ ~hc.last.force
    /\ hc.last.probed
    /\ hc.last.ret
    /\ hc.last.was.present
    /\ ~hc.last.was.healthy
    /\ now - hc.last.was.time >= hc.ttl
    /\ hc.cache[hc.last.provider] = Entry(TRUE, now)

====
